---- MODULE Spec2Model ----
(***************************************************************************)
(* Verification model of the succinct rank/select core of bsuccinct-rs:    *)
(*   - bitm::rank_select::ArrayWithRankSelect101111 (rank directory, rank) *)
(*   - the two select policies (binary search, combined sampling)          *)
(*   - cseq::elias_fano (Builder, Sequence, Cursor, Iterator)              *)
(*                                                                         *)
(* A 64-bit word is modelled as the set of its one-bit positions, a subset *)
(* of 0..63: | is union, & is intersection, << and >> move the positions   *)
(* (bits shifted beyond position 63 are lost), count_ones is Cardinality.  *)
(* A bit array (Box<[u64]>) is a sequence of such words; word number w of  *)
(* the source (0-based) is element w+1 of the sequence.                    *)
(***************************************************************************)
EXTENDS Integers, Sequences, FiniteSets, TLC

\* ---------------------------------------------------------------- bounds

\* Longest bit array (in 64-bit words) given to ArrayWithRankSelect101111.
MaxWords == 34

\* Elias-Fano: the longest sequence and the largest universe of which every
\* non-decreasing sequence is built.
MaxLen == 3
MaxUniverse == 7

\* Wavelet matrix: the longest symbol sequence and the largest width of which
\* every sequence is built.
MaxSymbols == 2
MaxBits == 2

\* Decoder: the most calls of consume between two resets.
MaxFragments == 4

\* ------------------------------------------------------- 64-bit word model

WordBits == 0..63

Pow2(n) == 2 ^ n

\* The word holding the number n (n < 2^31).
FromNat(n) == {b \in 0..30 : (n \div Pow2(b)) % 2 = 1}

\* The number held by a word whose one bits are all below position 31.
RECURSIVE ToNatFrom(_, _)
ToNatFrom(w, b) ==
    IF b > 30 THEN 0
    ELSE (IF b \in w THEN Pow2(b) ELSE 0) + ToNatFrom(w, b + 1)

ToNat(w) == ToNatFrom(w, 0)

\* w << s and w >> s on u64.
Shl(w, s) == {b + s : b \in {c \in w : c + s <= 63}}
Shr(w, s) == {b - s : b \in {c \in w : c >= s}}

\* n_lowest_bits(n): the word with its n lowest bits set.
n_lowest_bits(n) == 0..(n - 1)

\* u64::count_ones
count_ones(w) == Cardinality(w)

\* Elements [from, to) (0-based, as a Rust range) of a sequence.
Slice(s, from, to) == SubSeq(s, from + 1, to)

RECURSIVE count_bits_in(_)
count_bits_in(ws) ==
    IF ws = <<>> THEN 0 ELSE count_ones(Head(ws)) + count_bits_in(Tail(ws))

\* Bit number i of a bit array (i inside the array).
BitAt(ws, i) == (i % 64) \in ws[(i \div 64) + 1]

CeilDiv(a, b) == (a + b - 1) \div b

\* Option and panic results of the modelled calls.
None == [kind |-> "none", val |-> 0]
Some(v) == [kind |-> "some", val |-> v]
Panic == [kind |-> "panic", val |-> 0]
NoResult == [kind |-> "idle", val |-> 0]
\* An unsigned subtraction below zero: a panic in a debug build, a wrapped
\* (huge) value in a release build; in neither the number asked for.
Bool(b) == [kind |-> "bool", val |-> IF b THEN 1 ELSE 0]
Underflow == [kind |-> "underflow", val |-> 0]

\* ------------------------------------------------ rank directory constants

U64_PER_L1_ENTRY == 67108864
U64_PER_L2_ENTRY == 32
U64_PER_L2_RECORDS == 8

\* w & 0xFFFFFFFF as a number. Within the bounds no rank reaches 2^31, so bit 31
\* of the low half stays clear and the value fits the checker's integers.
Low32(w) == ToNat(w \cap n_lowest_bits(31))

\* index >> 32 (the divisor 2^32 itself does not fit the checker's integers)
Shr32(index) == (index \div 65536) \div 65536

\* --------------------------------------------------------------- build

\* The sub-block popcounts of one L2 chunk: chunk.chunks(8).map(count_bits_in)
Vals(chunk) ==
    [s \in 1..CeilDiv(Len(chunk), U64_PER_L2_RECORDS) |->
        count_bits_in(Slice(chunk, (s - 1) * U64_PER_L2_RECORDS,
            IF s * U64_PER_L2_RECORDS < Len(chunk) THEN s * U64_PER_L2_RECORDS ELSE Len(chunk)))]

\* Mutant of L2Entry: the third delta (chunk_sum << 32) is not written.
L2Entry_NoThird(chunk, current_rank) ==
    LET vals == Vals(chunk)
        nv == Len(vals)
        base == FromNat(current_rank)
    IN  IF nv >= 1 THEN
            LET s1 == vals[1]
                a1 == base \cup Shl(FromNat(s1), 32 + 11 + 11)
            IN  IF nv >= 2 THEN
                    LET s2 == s1 + vals[2]
                        a2 == a1 \cup Shl(FromNat(s2), 32 + 11)
                    IN  IF nv >= 3 THEN
                            LET s3 == s2 + vals[3]
                                a3 == a2
                            IN  [to_append |-> a3,
                                 chunk_sum |-> IF nv >= 4 THEN s3 + vals[4] ELSE s3]
                        ELSE [to_append |-> a2 \cup Shl(FromNat(Pow2(11) - 1), 32),
                              chunk_sum |-> s2]
            ELSE [to_append |-> a1 \cup Shl(FromNat(Pow2(22) - 1), 32),
                  chunk_sum |-> s1]
        ELSE [to_append |-> base \cup Shl(n_lowest_bits(32), 32), chunk_sum |-> 0]

\* Mutant of L2Entry: the deltas are packed from the low end up, r1 - r0 on
\* bits [32..42), r2 - r0 on bits [42..53), r3 - r0 on bits [53..64).
L2Entry_LowFirst(chunk, current_rank) ==
    LET vals == Vals(chunk)
        nv == Len(vals)
        base == FromNat(current_rank)
    IN  IF nv >= 1 THEN
            LET s1 == vals[1]
                a1 == base \cup Shl(FromNat(s1), 32)
            IN  IF nv >= 2 THEN
                    LET s2 == s1 + vals[2]
                        a2 == a1 \cup Shl(FromNat(s2), 32 + 10)
                    IN  IF nv >= 3 THEN
                            LET s3 == s2 + vals[3]
                                a3 == a2 \cup Shl(FromNat(s3), 32 + 10 + 11)
                            IN  [to_append |-> a3,
                                 chunk_sum |-> IF nv >= 4 THEN s3 + vals[4] ELSE s3]
                        ELSE [to_append |-> a2 \cup Shl(FromNat(Pow2(11) - 1), 32 + 10 + 11),
                              chunk_sum |-> s2]
            ELSE [to_append |-> a1 \cup Shl(FromNat(Pow2(22) - 1), 32 + 10),
                  chunk_sum |-> s1]
        ELSE [to_append |-> base \cup Shl(n_lowest_bits(32), 32), chunk_sum |-> 0]

\* Mutant of L2Entry: the fields of the missing sub-blocks are left zero.
L2Entry_NoFill(chunk, current_rank) ==
    LET vals == Vals(chunk)
        nv == Len(vals)
        base == FromNat(current_rank)
    IN  IF nv >= 1 THEN
            LET s1 == vals[1]
                a1 == base \cup Shl(FromNat(s1), 32 + 11 + 11)
            IN  IF nv >= 2 THEN
                    LET s2 == s1 + vals[2]
                        a2 == a1 \cup Shl(FromNat(s2), 32 + 11)
                    IN  IF nv >= 3 THEN
                            LET s3 == s2 + vals[3]
                                a3 == a2 \cup Shl(FromNat(s3), 32)
                            IN  [to_append |-> a3,
                                 chunk_sum |-> IF nv >= 4 THEN s3 + vals[4] ELSE s3]
                        ELSE [to_append |-> a2, chunk_sum |-> s2]
            ELSE [to_append |-> a1, chunk_sum |-> s1]
        ELSE [to_append |-> base, chunk_sum |-> 0]

\* The body of the inner loop of build for one L2 chunk: the packed entry
\* (to_append) and the chunk's popcount (chunk_sum), from current_rank.
L2Entry(chunk, current_rank) ==
    LET vals == Vals(chunk)
        nv == Len(vals)
        base == FromNat(current_rank)
    IN  IF nv >= 1 THEN
            LET s1 == vals[1]
                a1 == base \cup Shl(FromNat(s1), 32 + 11 + 11)
            IN  IF nv >= 2 THEN
                    LET s2 == s1 + vals[2]
                        a2 == a1 \cup Shl(FromNat(s2), 32 + 11)
                    IN  IF nv >= 3 THEN
                            LET s3 == s2 + vals[3]
                                a3 == a2 \cup Shl(FromNat(s3), 32)
                            IN  [to_append |-> a3,
                                 chunk_sum |-> IF nv >= 4 THEN s3 + vals[4] ELSE s3]
                        ELSE [to_append |-> a2 \cup Shl(FromNat(Pow2(11) - 1), 32),
                              chunk_sum |-> s2]
            ELSE [to_append |-> a1 \cup Shl(FromNat(Pow2(22) - 1), 32),
                  chunk_sum |-> s1]
        ELSE [to_append |-> base \cup Shl(n_lowest_bits(32), 32), chunk_sum |-> 0]

\* Mutant of L2Loop: current_rank is not advanced by the popcount of the chunk.
RECURSIVE L2Loop_NoCarry(_, _, _, _)
L2Loop_NoCarry(l1chunk, from, current_rank, acc) ==
    IF from >= Len(l1chunk) THEN [l2 |-> acc, current_rank |-> current_rank]
    ELSE LET to == IF from + U64_PER_L2_ENTRY < Len(l1chunk)
                   THEN from + U64_PER_L2_ENTRY ELSE Len(l1chunk)
             e == L2Entry(Slice(l1chunk, from, to), current_rank)
         IN  L2Loop_NoCarry(l1chunk, to, current_rank, Append(acc, e.to_append))

\* The inner loop of build over the L2 chunks of one L1 chunk, from word
\* number `from` of the L1 chunk.
RECURSIVE L2Loop(_, _, _, _)
L2Loop(l1chunk, from, current_rank, acc) ==
    IF from >= Len(l1chunk) THEN [l2 |-> acc, current_rank |-> current_rank]
    ELSE LET to == IF from + U64_PER_L2_ENTRY < Len(l1chunk)
                   THEN from + U64_PER_L2_ENTRY ELSE Len(l1chunk)
             e == L2Entry(Slice(l1chunk, from, to), current_rank)
         IN  L2Loop(l1chunk, to, current_rank + e.chunk_sum, Append(acc, e.to_append))

\* The outer loop of build over the L1 chunks, from word number `from`.
RECURSIVE L1Loop(_, _, _, _, _)
L1Loop(content_, from, current_total_rank, l1acc, l2acc) ==
    IF from >= Len(content_)
    THEN [l1ranks |-> l1acc, l2ranks |-> l2acc, total |-> current_total_rank]
    ELSE LET to == IF from + U64_PER_L1_ENTRY < Len(content_)
                   THEN from + U64_PER_L1_ENTRY ELSE Len(content_)
             r == L2Loop(Slice(content_, from, to), 0, 0, <<>>)
         IN  L1Loop(content_, to, current_total_rank + r.current_rank,
                    Append(l1acc, current_total_rank), l2acc \o r.l2)

\* ArrayWithRankSelect101111::build: the directory and the number of ones.
build(content_) == L1Loop(content_, 0, 0, <<>>, <<>>)

\* ------------------------------------------------------------ rank queries

\* What an unchecked read beyond the end of a slice may deliver.
JunkWords == {{}, WordBits}

\* Mutant of L2Delta: the delta masked to 10 bits instead of 11.
L2Delta_Mask10(upper, block) == ToNat(Shr(upper, 33 - 11 * (block % 4)) \cap n_lowest_bits(10))

\* The delta of sub-block (block & 3) read from the upper half of an L2 entry:
\* (block_content >> (33 - 11 * (block & 3))) & 0b1_11111_11111
L2Delta(upper, block) == ToNat(Shr(upper, 33 - 11 * (block % 4)) \cap n_lowest_bits(11))

\* Mutant of try_rank: the L2 entry is read before the bound check of the index.
try_rank_ReadFirst(c, l1, l2, index, junk) ==
    LET block == index \div 512
        word_idx == index \div 64
        l2i == index \div 2048
        block_content == IF l2i < Len(l2) THEN l2[l2i + 1] ELSE junk
    IN  IF word_idx >= Len(c) THEN [res |-> None, l2read |-> {l2i}]
        ELSE LET r0 == count_ones(c[word_idx + 1] \cap n_lowest_bits(index % 64))
                 l1v == IF Shr32(index) < Len(l1) THEN l1[Shr32(index) + 1] ELSE ToNat(junk \cap n_lowest_bits(8))
                 r1 == r0 + l1v + Low32(block_content)
                 upper == Shr(block_content, 32)
                 r2 == r1 + L2Delta(upper, block)
             IN  [res |-> Some(r2 + count_bits_in(Slice(c, block * 8, word_idx))),
                  l2read |-> {l2i}]

\* ArrayWithRankSelect101111::try_rank. l2read is the set of L2 indices the call
\* reads with get_unchecked; junk is what such a read delivers out of bound.
try_rank(c, l1, l2, index, junk) ==
    LET block == index \div 512
        word_idx == index \div 64
    IN  IF word_idx >= Len(c) THEN [res |-> None, l2read |-> {}]
        ELSE LET r0 == count_ones(c[word_idx + 1] \cap n_lowest_bits(index % 64))
                 l2i == index \div 2048
                 block_content == IF l2i < Len(l2) THEN l2[l2i + 1] ELSE junk
                 l1v == IF Shr32(index) < Len(l1) THEN l1[Shr32(index) + 1] ELSE ToNat(junk \cap n_lowest_bits(8))
                 r1 == r0 + l1v + Low32(block_content)
                 upper == Shr(block_content, 32)
                 r2 == r1 + L2Delta(upper, block)
             IN  [res |-> Some(r2 + count_bits_in(Slice(c, block * 8, word_idx))),
                  l2read |-> {l2i}]

\* Mutant of rank: the bound check of the index's word is off by one, so the
\* last word of the array is refused.
rank_RefusesLastWord(c, l1, l2, index) ==
    LET block == index \div 512
        word_idx == index \div 64
        l2i == index \div 2048
    IN  IF l2i >= Len(l2) THEN Panic
        ELSE LET block_content == l2[l2i + 1]
                 r0 == l1[Shr32(index) + 1] + Low32(block_content)
                 upper == Shr(block_content, 32)
                 r1 == r0 + L2Delta(upper, block)
             IN  IF word_idx + 1 >= Len(c) THEN Panic
                 ELSE Some(r1 + count_bits_in(Slice(c, block * 8, word_idx))
                           + count_ones(c[word_idx + 1] \cap n_lowest_bits(index % 64)))

\* Mutant of rank: the bit at the index itself is counted with those before it.
rank_CountsIndexBit(c, l1, l2, index) ==
    LET block == index \div 512
        word_idx == index \div 64
        l2i == index \div 2048
    IN  IF l2i >= Len(l2) THEN Panic
        ELSE LET block_content == l2[l2i + 1]
                 r0 == l1[Shr32(index) + 1] + Low32(block_content)
                 upper == Shr(block_content, 32)
                 r1 == r0 + L2Delta(upper, block)
             IN  IF word_idx >= Len(c) THEN Panic
                 ELSE Some(r1 + count_bits_in(Slice(c, block * 8, word_idx))
                           + count_ones(c[word_idx + 1] \cap n_lowest_bits((index % 64) + 1)))

\* ArrayWithRankSelect101111::rank, the panicking path with its own code.
rank(c, l1, l2, index) ==
    LET block == index \div 512
        word_idx == index \div 64
        l2i == index \div 2048
    IN  IF l2i >= Len(l2) THEN Panic
        ELSE LET block_content == l2[l2i + 1]
                 r0 == l1[Shr32(index) + 1] + Low32(block_content)
                 upper == Shr(block_content, 32)
                 r1 == r0 + L2Delta(upper, block)
             IN  IF word_idx > Len(c) THEN Panic
                 ELSE IF word_idx >= Len(c) THEN Panic
                 ELSE Some(r1 + count_bits_in(Slice(c, block * 8, word_idx))
                           + count_ones(c[word_idx + 1] \cap n_lowest_bits(index % 64)))

\* Rank::try_rank0 (the trait's default): try_rank(index).map(|r| index - r)
try_rank0(c, l1, l2, index, junk) ==
    LET r == try_rank(c, l1, l2, index, junk).res
    IN  IF r.kind = "some" THEN (IF r.val > index THEN Underflow ELSE Some(index - r.val)) ELSE r

\* Rank::rank0 (the trait's default): index - self.rank(index)
rank0(c, l1, l2, index) ==
    LET r == rank(c, l1, l2, index)
    IN  IF r.kind = "some" THEN (IF r.val > index THEN Underflow ELSE Some(index - r.val)) ELSE r

\* ------------------------------------------------------------ select (4.5, 4.6)
\* The select policies (bitm::rank_select::select) are modelled from the
\* specification's sections 3, 4.1, 4.5 and 4.6.

\* L2 entries per L1 entry: 2^32 / 2048.
L2_PER_L1_ENTRY == 2097152

\* Every S-th occurrence is sampled by the combined-sampling policy; with one
\* 32-bit sample per S bits the overhead is 32/8192 = 0.39% of the payload.
ONES_PER_SELECT_ENTRY == 8192

\* How far the combined-sampling policy scans forward from its hint before it
\* falls back to binary search.
SCAN_LIMIT == 2

\* select_in_word(word, k): the position of the k-th (0-based) set bit of word;
\* the out-of-range sentinel 64 if k >= popcount(word).
select_in_word(word, k) ==
    IF k >= Cardinality(word) THEN 64
    ELSE CHOOSE b \in word : Cardinality({c \in word : c < b}) = k

\* The bits of word w that are selected: its ones, or its zeros.
Selected(w, one) == IF one THEN w ELSE WordBits \ w

\* Number of selected bits before L1 block b, and before L2 block j inside its L1 block.
L1Count(l1, b, one) == IF one THEN l1[b + 1] ELSE (b * 65536) * 65536 - l1[b + 1]
L2Count(l2, j, one) ==
    IF one THEN Low32(l2[j + 1])
    ELSE (j % L2_PER_L1_ENTRY) * 2048 - Low32(l2[j + 1])

\* Number of selected bits of L2 block j before its sub-block s.
SubCount(l2, j, s, one) ==
    LET d == IF s = 0 THEN 0 ELSE L2Delta(Shr(l2[j + 1], 32), s)
    IN  IF one THEN d ELSE s * 512 - d

\* Binary search: the greatest index i in [lo, hi) with key[i] <= k, where
\* key[lo] <= k and key is non-decreasing (key is 1-based: key[i + 1]).
RECURSIVE GreatestLE(_, _, _, _)
GreatestLE(key, lo, hi, k) ==
    IF hi - lo <= 1 THEN lo
    ELSE LET mid == (lo + hi) \div 2
         IN  IF key[mid + 1] <= k THEN GreatestLE(key, mid, hi, k)
             ELSE GreatestLE(key, lo, mid, k)

\* The popcount walk: from word w on, the word holding the rem-th selected bit;
\* None when the words run out.
RECURSIVE WalkWords(_, _, _, _)
WalkWords(c, w, rem, one) ==
    IF w >= Len(c) THEN None
    ELSE LET sel == Selected(c[w + 1], one)
         IN  IF rem < Cardinality(sel) THEN Some(w * 64 + select_in_word(sel, rem))
             ELSE WalkWords(c, w + 1, rem - Cardinality(sel), one)

\* The end of both policies: with L2 entry j located and rem the rank inside
\* its L2 block, choose the sub-block by the deltas (among the sub-blocks that
\* begin inside the array) and walk its words.
SelectInL2(c, l2, j, rem, one) ==
    LET present == {s \in 0..3 : j * U64_PER_L2_ENTRY + s * U64_PER_L2_RECORDS < Len(c)}
        fit == {s \in present : SubCount(l2, j, s, one) <= rem}
        s == CHOOSE x \in fit : \A y \in fit : y <= x
    IN  WalkWords(c, j * U64_PER_L2_ENTRY + s * U64_PER_L2_RECORDS,
                  rem - SubCount(l2, j, s, one), one)

\* BinaryRankSearch: select (one = TRUE) and select0 (one = FALSE).
BinarySelect(c, l1, l2, k, one) ==
    IF Len(l1) = 0 THEN None
    ELSE LET l1key == [b \in 1..Len(l1) |-> L1Count(l1, b - 1, one)]
             b == GreatestLE(l1key, 0, Len(l1), k)
             k1 == k - l1key[b + 1]
             first == b * L2_PER_L1_ENTRY
             last == IF first + L2_PER_L1_ENTRY < Len(l2) THEN first + L2_PER_L1_ENTRY ELSE Len(l2)
             l2key == [j \in 1..Len(l2) |-> L2Count(l2, j - 1, one)]
             j == GreatestLE(l2key, first, last, k1)
         IN  SelectInL2(c, l2, j, k1 - l2key[j + 1], one)

\* Number of selected bits before (global) L2 block j.
AbsCount(l1, l2, j, one) == L1Count(l1, j \div L2_PER_L1_ENTRY, one) + L2Count(l2, j, one)

\* CombinedSampling::new: for every S-th occurrence below `total`, the index of
\* the L2 block that holds it.
RECURSIVE SampleScan(_, _, _, _, _)
SampleScan(l1, l2, j, k, one) ==
    IF j + 1 < Len(l2) /\ AbsCount(l1, l2, j + 1, one) <= k
    THEN SampleScan(l1, l2, j + 1, k, one) ELSE j

SelectSamples(l1, l2, total, one) ==
    [n \in 1..CeilDiv(total, ONES_PER_SELECT_ENTRY) |->
        SampleScan(l1, l2, 0, (n - 1) * ONES_PER_SELECT_ENTRY, one)]

\* The forward scan from the hint, at most `left` entries far.
RECURSIVE HintScan(_, _, _, _, _, _)
HintScan(l1, l2, j, k, one, left) ==
    IF left > 0 /\ j + 1 < Len(l2) /\ AbsCount(l1, l2, j + 1, one) <= k
    THEN HintScan(l1, l2, j + 1, k, one, left - 1) ELSE j

\* Mutant of CombinedSelect: the hint is taken from the sample after the one of
\* the queried rank.
CombinedSelect_NextSample(c, l1, l2, samples, k, one) ==
    IF (k \div ONES_PER_SELECT_ENTRY) + 1 >= Len(samples) THEN None
    ELSE LET hint == samples[(k \div ONES_PER_SELECT_ENTRY) + 2]
             scanned == HintScan(l1, l2, hint, k, one, SCAN_LIMIT)
             l2key == [j \in 1..Len(l2) |-> AbsCount(l1, l2, j - 1, one)]
             j == GreatestLE(l2key, scanned, Len(l2), k)
         IN  IF l2key[j + 1] > k THEN None
             ELSE SelectInL2(c, l2, j, k - l2key[j + 1], one)

\* CombinedSampling: select (one = TRUE) and select0 (one = FALSE).
CombinedSelect(c, l1, l2, samples, k, one) ==
    IF k \div ONES_PER_SELECT_ENTRY >= Len(samples) THEN None
    ELSE LET hint == samples[(k \div ONES_PER_SELECT_ENTRY) + 1]
             scanned == HintScan(l1, l2, hint, k, one, SCAN_LIMIT)
             l2key == [j \in 1..Len(l2) |-> AbsCount(l1, l2, j - 1, one)]
             j == GreatestLE(l2key, scanned, Len(l2), k)
         IN  SelectInL2(c, l2, j, k - l2key[j + 1], one)

\* impl Select / Select0 for ArrayWithRankSelect101111: try_select (one = TRUE)
\* and try_select0 (one = FALSE) hand the query to the array's policy.
try_select(pol, c, l1, l2, samples, k, one) ==
    IF pol = "BinaryRankSearch" THEN BinarySelect(c, l1, l2, k, one)
    ELSE CombinedSelect(c, l1, l2, samples, k, one)

\* ------------------------------------------- bit vector primitives (4.1, 4.2)
\* bitm's BitAccess / BitVec are modelled from the specification's sections
\* 4.1 and 4.2. An index beyond the words of the array makes a safe method
\* panic; the outcome of an unchecked method there is undefined.

\* Box::with_zeroed_bits(n): ceil(n / 64) zero words.
with_zeroed_bits(n) == [j \in 1..CeilDiv(n, 64) |-> {}]

InWords(ws, i) == i >= 0 /\ i < 64 * Len(ws)

\* set_bit(i) on an index inside the array.
set_bit(ws, i) == [ws EXCEPT ![(i \div 64) + 1] = @ \cup {i % 64}]

\* The one-bit positions of the whole array.
OnesOf(ws) == {i \in 0..(64 * Len(ws) - 1) : BitAt(ws, i)}

Min(S) == CHOOSE x \in S : \A y \in S : x <= y
Max(S) == CHOOSE x \in S : \A y \in S : x >= y

\* get_fragment(index, w): the w-bit field number index (bits [index*w, index*w + w)),
\* which may straddle two words; 0 when w = 0.
get_fragment(ws, index, w) ==
    LET from == index * w
        bits == {b \in 0..(w - 1) : BitAt(ws, from + b)}
    IN  ToNat(bits)

\* Whether field number index of width w lies inside the words of the array.
FragmentInWords(ws, index, w) == w = 0 \/ (index >= 0 /\ index * w + w <= 64 * Len(ws))

\* init_successive_fragment(&mut index, value, w): field number index receives
\* the w lowest bits of value (its bits were zero); the caller's index moves on by one.
init_successive_fragment(ws, index, value, w) ==
    LET from == index * w
        set == {from + b : b \in {c \in FromNat(value) : c < w}}
    IN  [j \in 1..Len(ws) |-> ws[j] \cup {i % 64 : i \in {x \in set : x \div 64 = j - 1}}]

\* find_bit_one(from): the first one bit at or after from, None if there is none.
find_bit_one(ws, from) ==
    LET after == {i \in OnesOf(ws) : i >= from}
    IN  IF after = {} THEN None ELSE Some(Min(after))

\* rfind_bit_one(from): the last one bit at or before from, None if there is none.
rfind_bit_one(ws, from) ==
    LET before == {i \in OnesOf(ws) : i <= from}
    IN  IF before = {} THEN None ELSE Some(Max(before))

\* trailing_zero_bits: the number of zero bits before the first one bit.
trailing_zero_bits(ws) ==
    IF OnesOf(ws) = {} THEN 64 * Len(ws) ELSE Min(OnesOf(ws))

\* ------------------------------------------------------ Elias-Fano: Builder

\* checked_ilog2().unwrap_or(0)
RECURSIVE Ilog2(_)
Ilog2(n) == IF n <= 1 THEN 0 ELSE 1 + Ilog2(n \div 2)

\* a | b on numbers
BitOr(a, b) == ToNat(FromNat(a) \cup FromNat(b))

\* Builder::new: the fields of the new builder.
BuilderNew(final_len, universe_) ==
    IF final_len = 0 \/ universe_ = 0
    THEN [hi |-> <<>>, lo |-> <<>>, bits_per_lo |-> 0, current_len |-> 0,
          target_len |-> 0, last_added |-> 0, universe |-> universe_]
    ELSE LET l == Ilog2(universe_ \div final_len)
         IN  [hi |-> with_zeroed_bits(final_len + ((universe_ - 1) \div Pow2(l))),
              lo |-> with_zeroed_bits(IF final_len * l > 1 THEN final_len * l ELSE 1),
              bits_per_lo |-> l, current_len |-> 0, target_len |-> final_len,
              last_added |-> 0, universe |-> universe_]

\* ----------------------------------------------------- Elias-Fano: Sequence
\* A Position is [hi |-> bit index in hi, lo |-> index of the item].
\* seq is the Sequence: [hi (content), l1, l2, sel (samples of the ones), lo,
\* bits_per_lo, len]; hi is an ArrayWithRankSelect101111<S>: select by S, the
\* default CombinedSampling, select0 by the default BinaryRankSearch.

hi_bits(position) == position.hi - position.lo

\* value_at_position_unchecked
value_at_position_unchecked(seq, position) ==
    BitOr(hi_bits(position) * Pow2(seq.bits_per_lo),
          get_fragment(seq.lo, position.lo, seq.bits_per_lo))

\* value_at_position
value_at_position(seq, position) ==
    IF position.lo < seq.len THEN Some(value_at_position_unchecked(seq, position)) ELSE None

\* begin_position, end_position
begin_position(seq) == [hi |-> trailing_zero_bits(seq.hi), lo |-> 0]
end_position(seq) == [hi |-> Len(seq.hi) * 64, lo |-> seq.len]

\* hi.select_unchecked(index), index < len
hi_select(seq, index) ==
    try_select("CombinedSampling", seq.hi, seq.l1, seq.l2, seq.sel, index, TRUE).val

\* get_unchecked that leaves the index in the upper part (the select result taken as is).
get_unchecked_KeepsIndex(seq, index) ==
    BitOr(hi_select(seq, index) * Pow2(seq.bits_per_lo),
          get_fragment(seq.lo, index, seq.bits_per_lo))

\* get_unchecked, get
get_unchecked(seq, index) ==
    BitOr((hi_select(seq, index) - index) * Pow2(seq.bits_per_lo),
          get_fragment(seq.lo, index, seq.bits_per_lo))

get(seq, index) == IF index < seq.len THEN Some(get_unchecked(seq, index)) ELSE None

\* position_at_unchecked
position_at_unchecked(seq, index) == [hi |-> hi_select(seq, index), lo |-> index]

\* advance_position_unchecked: the position after `position`. find_bit_one_unchecked
\* past the last one bit is undefined; junk is what it then delivers.
advance_position_unchecked(seq, position, junk) ==
    LET lo1 == position.lo + 1
        f == find_bit_one(seq.hi, position.hi + 1)
    IN  [lo |-> lo1,
         hi |-> IF lo1 # seq.len THEN (IF f.kind = "some" THEN f.val ELSE junk)
                ELSE seq.len * 64]

\* position_next: the value at `position` and the position after it, None at
\* the end; get_fragment panics when the lo field lies beyond the words of lo.
position_next(seq, position, junk) ==
    IF position.lo # seq.len
    THEN IF FragmentInWords(seq.lo, position.lo, seq.bits_per_lo)
         THEN [res |-> Some(value_at_position_unchecked(seq, position)),
               position |-> advance_position_unchecked(seq, position, junk)]
         ELSE [res |-> Panic, position |-> position]
    ELSE [res |-> None, position |-> position]

\* Cursor::is_end
is_end(seq, position) == position.lo # seq.len

\* Cursor::is_valid
is_valid(seq, position) == position.lo # seq.len

\* Cursor::advance: what it returns and the position it leaves.
advance(seq, position, junk) ==
    IF is_end(seq, position) THEN [res |-> Bool(FALSE), position |-> position]
    ELSE [res |-> Bool(TRUE), position |-> advance_position_unchecked(seq, position, junk)]

\* Cursor::advance_back: what it returns and the position it leaves.
advance_back(seq, position, back) ==
    IF position.lo = 0 THEN [res |-> Bool(FALSE), position |-> position]
    ELSE [res |-> Bool(TRUE), position |-> back]

\* Cursor::next_back: what it returns and the position it leaves; back is the
\* position advance_position_back_unchecked delivers.
next_back(seq, position, back) ==
    IF position.lo # 0
    THEN [res |-> IF back.hi < back.lo THEN Underflow
                  ELSE Some(value_at_position_unchecked(seq, back)),
          position |-> back]
    ELSE [res |-> None, position |-> position]

\* advance_position_back_unchecked that scans back from position.hi itself.
advance_position_back_unchecked_FromSelf(seq, position, junk) ==
    LET f == rfind_bit_one(seq.hi, position.hi)
    IN  [lo |-> position.lo - 1,
         hi |-> IF InWords(seq.hi, position.hi) /\ f.kind = "some" THEN f.val ELSE junk]

\* advance_position_back_unchecked: the position before `position`.
\* rfind_bit_one_unchecked from a bit beyond the words of hi, or with no one
\* bit before it, is undefined; junk is what it then delivers.
advance_position_back_unchecked(seq, position, junk) ==
    LET f == rfind_bit_one(seq.hi, position.hi - 1)
    IN  [lo |-> position.lo - 1,
         hi |-> IF InWords(seq.hi, position.hi - 1) /\ f.kind = "some" THEN f.val ELSE junk]

\* diff_at_position_unchecked
diff_at_position_unchecked(seq, position, junk) ==
    LET current == value_at_position_unchecked(seq, position)
    IN  IF position.lo = 0 THEN current
        ELSE current - value_at_position_unchecked(seq,
                            advance_position_back_unchecked(seq, position, junk))

\* diff_unchecked, diff
diff(seq, index, junk) ==
    IF index < seq.len
    THEN Some(diff_at_position_unchecked(seq, position_at_unchecked(seq, index), junk))
    ELSE None

\* The loop of geq_position_uncorrected: steps back over the items of the same
\* upper part whose lower part is not below value_lo. get_bit and get_fragment
\* panic beyond the words of their arrays.
RECURSIVE GeqLoop(_, _, _, _)
GeqLoop(seq, hi_index, lo_index, value_lo) ==
    IF lo_index <= 0 THEN [kind |-> "some", val |-> [hi |-> hi_index, lo |-> lo_index]]
    ELSE IF ~InWords(seq.hi, hi_index - 1) THEN Panic
    ELSE IF ~BitAt(seq.hi, hi_index - 1)
         THEN [kind |-> "some", val |-> [hi |-> hi_index, lo |-> lo_index]]
    ELSE IF ~FragmentInWords(seq.lo, lo_index - 1, seq.bits_per_lo) THEN Panic
    ELSE IF value_lo <= get_fragment(seq.lo, lo_index - 1, seq.bits_per_lo)
         THEN GeqLoop(seq, hi_index - 1, lo_index - 1, value_lo)
    ELSE [kind |-> "some", val |-> [hi |-> hi_index, lo |-> lo_index]]

\* geq_position_uncorrected: Some(position), or a panic, or the underflow of
\* hi_index - value_hi.
geq_position_uncorrected(seq, value) ==
    LET value_hi == value \div Pow2(seq.bits_per_lo)
        s0 == try_select("BinaryRankSearch", seq.hi, seq.l1, seq.l2, <<>>, value_hi, FALSE)
        hi_index == IF s0.kind = "some" THEN s0.val ELSE seq.len * 64
        value_lo == value % Pow2(seq.bits_per_lo)
    IN  IF value_hi > hi_index THEN Underflow
        ELSE GeqLoop(seq, hi_index, hi_index - value_hi, value_lo)

\* The second half of geq_position: hi moves on to the next one bit of hi
\* (to len * 64 when there is none); a panic or underflow of the first half stays.
CorrectedPosition(seq, u) ==
    IF u.kind # "some" THEN u
    ELSE LET f == find_bit_one(seq.hi, u.val.hi)
         IN  [kind |-> "some",
              val |-> [hi |-> IF f.kind = "some" THEN f.val ELSE seq.len * 64,
                       lo |-> u.val.lo]]

\* geq_position
geq_position(seq, value) == CorrectedPosition(seq, geq_position_uncorrected(seq, value))

\* .lo of an optional position (map(|p| p.lo)); a panic or underflow stays.
LoOf(p) == IF p.kind = "some" THEN Some(p.val.lo) ELSE p

\* geq_index
geq_index(seq, value) == LoOf(geq_position_uncorrected(seq, value))

\* The second half of position_of: the position g when the value there is `value`.
PositionIfValue(seq, value, g) ==
    IF g.kind # "some" THEN g
    ELSE IF value_at_position(seq, g.val) = Some(value) THEN g ELSE None

\* position_of
position_of(seq, value) == PositionIfValue(seq, value, geq_position(seq, value))

\* index_of
index_of(seq, value) == LoOf(position_of(seq, value))

\* ------------------------------------------------------------ wavelet matrix
\* A level is [content, l1ranks, l2ranks, select, select0, number_of_zeros]:
\* the ArrayWithRankSelect101111<CombinedSampling, CombinedSampling> and the
\* recorded number of zeros. A matrix is [levels, len].

\* init_successive_bits(&mut index, value, w): bits [index, index + w) receive the
\* w lowest bits of value (they were zero); the caller's index moves on by w.
init_successive_bits(ws, index, value, w) ==
    LET set == {index + b : b \in {c \in FromNat(value) : c < w}}
    IN  [j \in 1..Len(ws) |-> ws[j] \cup {i % 64 : i \in {x \in set : x \div 64 = j - 1}}]

\* get_bits(index, w): the number held by bits [index, index + w).
get_bits(ws, index, w) == ToNat({b \in 0..(w - 1) : BitAt(ws, index + b)})

\* init_bit(i, bit) and init_successive_bit(&mut i, bit) on a zero bit.
init_bit(ws, i, bit) == IF bit THEN set_bit(ws, i) ELSE ws

\* value & (1 << bit) != 0
BitOf(value, bit) == bit <= 30 /\ (value \div Pow2(bit)) % 2 = 1

\* value & mask == 0, value below 2^31 and mask a word
AndIsZero(value, mask) == \A b \in mask : ~BitOf(value, b)

\* Mutant of LevelBuilderNew: the cursor of the values with a 1 starts at 0.
LevelBuilderNew_OnesFromZero(number_of_zeros, total_len, index_of_bit_to_extract) ==
    [upper_bit |-> with_zeroed_bits(total_len),
     upper_index |-> 0,
     lower_bits |-> with_zeroed_bits(total_len * index_of_bit_to_extract),
     lower_zero_index |-> 0,
     lower_one_index |-> 0,
     upper_bit_mask |-> Shl(FromNat(1), index_of_bit_to_extract),
     bits_per_value |-> index_of_bit_to_extract]

\* LevelBuilder::new
LevelBuilderNew(number_of_zeros, total_len, index_of_bit_to_extract) ==
    [upper_bit |-> with_zeroed_bits(total_len),
     upper_index |-> 0,
     lower_bits |-> with_zeroed_bits(total_len * index_of_bit_to_extract),
     lower_zero_index |-> 0,
     lower_one_index |-> number_of_zeros * index_of_bit_to_extract,
     upper_bit_mask |-> Shl(FromNat(1), index_of_bit_to_extract),
     bits_per_value |-> index_of_bit_to_extract]

\* LevelBuilder::push with is_one already computed
LevelBuilderPushBit(lb, value, is_one) ==
    [upper_bit |-> init_bit(lb.upper_bit, lb.upper_index, is_one),
     upper_index |-> lb.upper_index + 1,
     lower_bits |-> init_successive_bits(lb.lower_bits,
                        IF is_one THEN lb.lower_one_index ELSE lb.lower_zero_index,
                        ToNat(FromNat(value) \cap n_lowest_bits(lb.bits_per_value)),
                        lb.bits_per_value),
     lower_zero_index |-> lb.lower_zero_index + (IF is_one THEN 0 ELSE lb.bits_per_value),
     lower_one_index |-> lb.lower_one_index + (IF is_one THEN lb.bits_per_value ELSE 0),
     upper_bit_mask |-> lb.upper_bit_mask,
     bits_per_value |-> lb.bits_per_value]

\* LevelBuilder::push
LevelBuilderPush(lb, value) ==
    LevelBuilderPushBit(lb, value, ~AndIsZero(value, lb.upper_bit_mask))

\* for e in ... { level.push(e) }
\* The writes of a push stay inside the vectors sized by LevelBuilder::new as
\* long as no more than total_len values are pushed.
RECURSIVE PushAll(_, _)
PushAll(lb, values) ==
    IF values = <<>> \/ ~InWords(lb.upper_bit, lb.upper_index) THEN lb
    ELSE PushAll(LevelBuilderPush(lb, Head(values)), Tail(values))

\* The level with its rank/select directory b = build(content).
LevelWith(content_, b, number_of_zeros) ==
    [content |-> content_, l1ranks |-> b.l1ranks, l2ranks |-> b.l2ranks,
     select |-> SelectSamples(b.l1ranks, b.l2ranks, b.total, TRUE),
     select0 |-> SelectSamples(b.l1ranks, b.l2ranks, 64 * Len(content_) - b.total, FALSE),
     number_of_zeros |-> number_of_zeros]

\* WaveletMatrixLevel::new
WaveletMatrixLevelNew(content_, number_of_zeros) ==
    LevelWith(content_, build(content_), number_of_zeros)

\* Mutant of NumberOfZeros: the symbols whose bit is 1 are counted.
NumberOfZeros_CountsOnes(symbols_, bit) ==
    Cardinality({i \in 1..Len(symbols_) : BitOf(symbols_[i], bit)})

\* from_fn: number_of_zeros[bit], the count of the symbols whose bit `bit` is 0.
NumberOfZeros(symbols_, bit) ==
    Cardinality({i \in 1..Len(symbols_) : ~BitOf(symbols_[i], bit)})

\* from_fn: the values rest.get_bits(index, w) for index = 0, w, 2w, ...
RestValues(rest, content_len, w) ==
    [i \in 1..content_len |-> get_bits(rest, (i - 1) * w, w)]

\* from_fn: the while loop and the last level, lb being the builder just filled.
RECURSIVE LowerLevels(_, _, _, _, _)
AfterLevel(lb, current_bit, symbols_, content_len, acc) ==
    LowerLevels(lb.lower_bits, current_bit, symbols_, content_len,
                Append(acc, WaveletMatrixLevelNew(lb.upper_bit,
                                                  NumberOfZeros(symbols_, current_bit))))

LowerLevels(rest, current_bit, symbols_, content_len, acc) ==
    IF current_bit >= 2 /\ Len(acc) + Len(rest) >= 0
    THEN AfterLevel(PushAll(LevelBuilderNew(NumberOfZeros(symbols_, current_bit - 1),
                                            content_len, current_bit - 1),
                            RestValues(rest, content_len, current_bit)),
                    current_bit - 1, symbols_, content_len, acc)
    ELSE Append(acc, WaveletMatrixLevelNew(rest, NumberOfZeros(symbols_, 0)))

\* from_fn, bits_per_value = 1: one level, recorded with content_len as its number of zeros.
OneLevel(symbols_, content_len) ==
    <<WaveletMatrixLevelNew(
        [j \in 1..CeilDiv(content_len, 64) |->
            {i \in 0..63 : 64 * (j - 1) + i < content_len /\ symbols_[64 * (j - 1) + i + 1] # 0}],
        content_len)>>

\* from_fn, bits_per_value >= 2: the values pushed to the LevelBuilder that
\* extracts bit c (the symbols for the top level, the lower bits left by the
\* builder above for the others), and that builder after its first k pushes.
RECURSIVE BuilderInput(_, _, _)
RECURSIVE BuilderAfter(_, _, _, _)
BuilderInput(symbols_, bits_per_value_, c) ==
    IF c = bits_per_value_ - 1 THEN symbols_
    ELSE RestValues(BuilderAfter(symbols_, bits_per_value_, c + 1, Len(symbols_)).lower_bits,
                    Len(symbols_), c + 1)

BuilderAfter(symbols_, bits_per_value_, c, k) ==
    PushAll(LevelBuilderNew(NumberOfZeros(symbols_, c), Len(symbols_), c),
            SubSeq(BuilderInput(symbols_, bits_per_value_, c), 1, k))

\* WaveletMatrix::from_fn (1 <= bits_per_value <= 64 asserted by the caller of this operator)
from_fn(symbols_, content_len, bits_per_value_) ==
    [levels |-> IF bits_per_value_ = 1 THEN OneLevel(symbols_, content_len)
                ELSE AfterLevel(PushAll(LevelBuilderNew(NumberOfZeros(symbols_, bits_per_value_ - 1),
                                                        content_len, bits_per_value_ - 1),
                                        symbols_),
                                bits_per_value_ - 1, symbols_, content_len, <<>>),
     len |-> content_len]

LevelRank(level, index) == rank(level.content, level.l1ranks, level.l2ranks, index)
LevelRank0(level, index) == rank0(level.content, level.l1ranks, level.l2ranks, index)

\* WaveletMatrix::get: the loop over the levels from `depth` (1-based) on.
RECURSIVE GetFrom(_, _, _, _)
GetNext(levels, depth, r, add, result) ==
    IF r.kind # "some" THEN r ELSE GetFrom(levels, depth + 1, r.val + add, result)

GetFrom(levels, depth, index, result) ==
    IF depth > Len(levels) THEN Some(result)
    ELSE IF ~InWords(levels[depth].content, index) THEN Panic
    ELSE IF BitAt(levels[depth].content, index)
         THEN GetNext(levels, depth, LevelRank(levels[depth], index),
                      levels[depth].number_of_zeros, 2 * result + 1)
         ELSE GetNext(levels, depth, LevelRank0(levels[depth], index), 0, 2 * result)

\* WaveletMatrix::get
wm_get(m, index) == IF index >= m.len THEN None ELSE GetFrom(m.levels, 1, index, 0)

\* Range::len
RangeLen(start, end_) == IF end_ > start THEN end_ - start ELSE 0

\* The build profiles: overflow checks on ("debug") or off ("release").
Profiles == {"debug", "release"}

\* 1 << amount on u64, amount a u8: an amount of 64 or more overflows, which
\* panics with overflow checks and shifts by amount % 64 without them.
ShlOne(amount, profile) ==
    IF amount < 64 THEN [kind |-> "some", word |-> Shl(FromNat(1), amount)]
    ELSE IF profile = "debug" THEN [kind |-> "panic", word |-> {}]
    ELSE [kind |-> "some", word |-> Shl(FromNat(1), amount % 64)]

\* WaveletMatrix::try_count_in_range: the loop over the levels from `depth`
\* (1-based) on; level_bit_mask is the mask before its shift for this level.
RECURSIVE CountFrom(_, _, _, _, _, _)
CountNext(levels, depth, level_bit_mask, s, e, add, value) ==
    IF s.kind # "some" THEN s
    ELSE IF e.kind # "some" THEN e
    ELSE CountFrom(levels, depth + 1, level_bit_mask, s.val + add, e.val + add, value)

CountFrom(levels, depth, level_bit_mask, start, end_, value) ==
    IF depth > Len(levels) THEN Some(RangeLen(start, end_))
    ELSE IF AndIsZero(value, Shr(level_bit_mask, 1))
         THEN CountNext(levels, depth, Shr(level_bit_mask, 1),
                        LevelRank0(levels[depth], start), LevelRank0(levels[depth], end_),
                        0, value)
         ELSE CountNext(levels, depth, Shr(level_bit_mask, 1),
                        LevelRank(levels[depth], start), LevelRank(levels[depth], end_),
                        levels[depth].number_of_zeros, value)

\* WaveletMatrix::try_count_in_range
try_count_in_range(m, start, end_, value, profile) ==
    IF m.len < end_ THEN None
    ELSE IF ShlOne(Len(m.levels), profile).kind = "panic" THEN Panic
    ELSE CountFrom(m.levels, 1, ShlOne(Len(m.levels), profile).word, start, end_, value)

\* WaveletMatrix::try_rank
wm_try_rank(m, index, value, profile) == try_count_in_range(m, 0, index, value, profile)

\* WaveletMatrix::sel (depth 0-based, as in the source)
RECURSIVE sel(_, _, _, _, _)
SelInner(levels, rank_, value, r, add, depth) ==
    IF r.kind # "some" THEN r ELSE sel(levels, rank_, value, r.val + add, depth + 1)

\* try_select0(inner?) and try_select(inner? - number_of_zeros) of a level
SelOuter(level, inner, sub, one) ==
    IF inner.kind # "some" THEN inner
    ELSE IF inner.val < sub THEN Underflow
    ELSE CombinedSelect(level.content, level.l1ranks, level.l2ranks,
                        IF one THEN level.select ELSE level.select0, inner.val - sub, one)

sel(levels, rank_, value, index, depth) ==
    IF depth >= Len(levels) THEN Some(index + rank_)
    ELSE IF ~BitOf(value, Len(levels) - depth - 1)
         THEN SelOuter(levels[depth + 1],
                       SelInner(levels, rank_, value, LevelRank0(levels[depth + 1], index), 0, depth),
                       0, FALSE)
         ELSE SelOuter(levels[depth + 1],
                       SelInner(levels, rank_, value, LevelRank(levels[depth + 1], index),
                                levels[depth + 1].number_of_zeros, depth),
                       levels[depth + 1].number_of_zeros, TRUE)

\* WaveletMatrix::try_select
wm_try_select(m, rank_, value) == sel(m.levels, rank_, value, 0, 0)

\* ------------------------------------------------------------------ inputs

\* Word number j (0-based) of the n-word bit array of family p.
\*   "d"  every word 0b1101 (the tests' array)
\*   "f"  every word u64::MAX
\*   "z"  all zero but the two top bits of the last word
\*   "m"  a mixed pattern that differs from word to word
PatternWord(p, n, j) ==
    CASE p = "d" -> FromNat(13)
      [] p = "f" -> WordBits
      [] p = "z" -> IF j = n - 1 THEN {62, 63} ELSE {}
      [] OTHER   -> {b \in WordBits : (b * b + 3 * j * b + j) % 7 < 3}

Patterns == {"d", "f", "z", "m"}

BitArray(p, n) == [j \in 1..n |-> PatternWord(p, n, j - 1)]

BitArrays == {BitArray(p, n) : p \in Patterns, n \in 0..MaxWords}

\* Bit offsets inside a word at which the queries are asked.
Offsets == {0, 1, 31, 63}

\* The indices asked of an array of n words: in bound, the end, and beyond.
QueryIndices(n) == {i \in 0..(64 * n + 65) : i % 64 \in Offsets}

\* ------------------------------------------------------------------- state

VARIABLES
    content,    \* ArrayWithRankSelect101111.content
    l1ranks,    \* ArrayWithRankSelect101111.l1ranks
    l2ranks,    \* ArrayWithRankSelect101111.l2ranks
    ones,       \* the number of ones build returns
    policy,     \* the select policy (the type parameters S and S0)
    select,     \* ArrayWithRankSelect101111.select: the samples of the ones
    select0,    \* ArrayWithRankSelect101111.select0: the samples of the zeros
    pc,         \* "new": content given, directory not built; "built"; "done": a query answered
    op,         \* the query made
    arg,        \* its argument
    res,        \* its result
    l2read,     \* the L2 indices the query read unchecked
    final_len,  \* the argument of Builder::new
    hi,         \* Builder.hi
    lo,         \* Builder.lo, then Sequence.lo
    bits_per_lo,\* Builder.bits_per_lo, then Sequence.bits_per_lo
    current_len,\* Builder.current_len
    target_len, \* Builder.target_len
    last_added, \* Builder.last_added
    universe,   \* Builder.universe
    len,        \* Sequence.len (Sequence.hi is content, l1ranks, l2ranks, select)
    pushed,     \* the values the builder accepted, in order
    begin,      \* Iterator.begin
    end,        \* Iterator.end
    position,   \* Cursor.position, DiffIterator.position
    prev_value, \* DiffIterator.prev_value
    yielded,    \* what next() returned so far
    yielded_back, \* what next_back() returned so far
    wm,         \* the WaveletMatrix: [levels, len]
    symbols,    \* the symbols the matrix is built from
    bits_per_value, \* the width given to from_fn
    coding,     \* the Coding the decoder walks: [degree, internal_nodes_count, values]
    shift,      \* Decoder.shift
    first_leaf_nr, \* Decoder.first_leaf_nr
    level,      \* Decoder.level
    level_size, \* Decoder.level_size
    fragments   \* the number of calls of consume since construction or the last reset

structure == <<content, l1ranks, l2ranks, ones, policy, select, select0>>

builder == <<final_len, hi, lo, bits_per_lo, current_len, target_len, last_added, universe, pushed>>

iterators == <<begin, end, position, prev_value, yielded, yielded_back>>

efvars == <<builder, len, iterators>>

wmvars == <<wm, symbols, bits_per_value>>

decoder == <<shift, first_leaf_nr, level, level_size>>

decvars == <<coding, decoder, fragments>>

vars == <<content, l1ranks, l2ranks, ones, policy, select, select0, pc, op, arg, res, l2read,
          final_len, hi, lo, bits_per_lo, current_len, target_len, last_added, universe,
          len, pushed, begin, end, position, prev_value, yielded, yielded_back,
          wm, symbols, bits_per_value, coding, shift, first_leaf_nr, level, level_size,
          fragments>>

\* No iterator or cursor made yet.
NoPosition == [hi |-> 0, lo |-> 0]

NoIterators ==
    /\ begin = NoPosition
    /\ end = NoPosition
    /\ position = NoPosition
    /\ prev_value = 0
    /\ yielded = <<>>
    /\ yielded_back = <<>>

\* No wavelet matrix made.
NoWaveletMatrix ==
    /\ wm = [levels |-> <<>>, len |-> 0]
    /\ symbols = <<>>
    /\ bits_per_value = 1

\* No decoder made.
NoDecoder ==
    /\ coding = [degree |-> 2, internal_nodes_count |-> <<0>>, values |-> 2]
    /\ shift = 0
    /\ first_leaf_nr = 0
    /\ level = 0
    /\ level_size = 0
    /\ fragments = 0

\* No Elias-Fano builder or sequence made.
NoEliasFano ==
    /\ final_len = 0
    /\ hi = <<>>
    /\ lo = <<>>
    /\ bits_per_lo = 0
    /\ current_len = 0
    /\ target_len = 0
    /\ last_added = 0
    /\ universe = 0
    /\ len = 0
    /\ pushed = <<>>
    /\ NoIterators

Policies == {"BinaryRankSearch", "CombinedSampling"}

InitWith(arrays, policies) ==
    /\ content \in arrays
    /\ policy \in policies
    /\ l1ranks = <<>>
    /\ l2ranks = <<>>
    /\ ones = 0
    /\ select = <<>>
    /\ select0 = <<>>
    /\ pc = "new"
    /\ op = "none"
    /\ arg = 0
    /\ res = NoResult
    /\ l2read = {}
    /\ NoEliasFano
    /\ NoWaveletMatrix
    /\ NoDecoder

\* ArrayWithRank101111: the array with the default (binary search) policy.
Init == InitWith(BitArrays, {"BinaryRankSearch"})

\* ArrayWithRankSelect101111::build (From<Box<[u64]>>), S::new and S0::new0 included
Build ==
    /\ pc = "new"
    /\ LET b == build(content)
       IN  /\ l1ranks' = b.l1ranks
           /\ l2ranks' = b.l2ranks
           /\ ones' = b.total
           /\ select' = IF policy = "CombinedSampling"
                        THEN SelectSamples(b.l1ranks, b.l2ranks, b.total, TRUE) ELSE <<>>
           /\ select0' = IF policy = "CombinedSampling"
                         THEN SelectSamples(b.l1ranks, b.l2ranks, 64 * Len(content) - b.total, FALSE)
                         ELSE <<>>
    /\ pc' = "built"
    /\ UNCHANGED <<content, policy, op, arg, res, l2read, efvars, wmvars, decvars>>

TryRank(i) ==
    /\ pc = "built"
    /\ \E junk \in JunkWords :
        LET r == try_rank(content, l1ranks, l2ranks, i, junk)
        IN  /\ res' = r.res
            /\ l2read' = r.l2read
    /\ op' = "try_rank"
    /\ arg' = i
    /\ pc' = "done"
    /\ UNCHANGED <<structure, efvars, wmvars, decvars>>

RankOp(i) ==
    /\ pc = "built"
    /\ res' = rank(content, l1ranks, l2ranks, i)
    /\ op' = "rank"
    /\ arg' = i
    /\ pc' = "done"
    /\ UNCHANGED <<structure, l2read, wmvars, decvars, efvars, wmvars, decvars>>

TryRank0(i) ==
    /\ pc = "built"
    /\ \E junk \in JunkWords :
        /\ res' = try_rank0(content, l1ranks, l2ranks, i, junk)
        /\ l2read' = try_rank(content, l1ranks, l2ranks, i, junk).l2read
    /\ op' = "try_rank0"
    /\ arg' = i
    /\ pc' = "done"
    /\ UNCHANGED <<structure, efvars, wmvars, decvars>>

Rank0Op(i) ==
    /\ pc = "built"
    /\ res' = rank0(content, l1ranks, l2ranks, i)
    /\ op' = "rank0"
    /\ arg' = i
    /\ pc' = "done"
    /\ UNCHANGED <<structure, l2read, wmvars, decvars, efvars, wmvars, decvars>>

Next ==
    \/ Build
    \/ \E i \in QueryIndices(Len(content)) : TryRank(i)
    \/ \E i \in QueryIndices(Len(content)) : RankOp(i)
    \/ \E i \in QueryIndices(Len(content)) : TryRank0(i)
    \/ \E i \in QueryIndices(Len(content)) : Rank0Op(i)

Spec == Init /\ [][Next]_vars

\* ---- select on the rank/select bit array

\* The smallest array whose ones (zeros) need a second sample, in words.
BigWords == (ONES_PER_SELECT_ENTRY \div 64) + 1

\* How many word counts from BigWords on are tried.
MaxBigExtra == 0

SelectArrays ==
    BitArrays \cup {BitArray(p, n) : p \in {"f", "z"}, n \in BigWords..(BigWords + MaxBigExtra)}

\* The ranks asked of an array of n words: below, at and above every count.
QueryRanks(n) == {k \in 0..(64 * n + 1) : k % 64 \in {0, 63}}

InitSelect == InitWith(SelectArrays, Policies)

TrySelect(k) ==
    /\ pc = "built"
    /\ res' = try_select(policy, content, l1ranks, l2ranks, select, k, TRUE)
    /\ op' = "try_select"
    /\ arg' = k
    /\ pc' = "done"
    /\ UNCHANGED <<structure, l2read, wmvars, decvars, efvars, wmvars, decvars>>

TrySelect0(k) ==
    /\ pc = "built"
    /\ res' = try_select(policy, content, l1ranks, l2ranks, select0, k, FALSE)
    /\ op' = "try_select0"
    /\ arg' = k
    /\ pc' = "done"
    /\ UNCHANGED <<structure, l2read, wmvars, decvars, efvars, wmvars, decvars>>

\* tests::check_all_ones / check_all_zeros, one step: the rank (rank0) of index
\* i, and the select (select0) of that rank.
SelectOfRank(i) ==
    /\ pc = "built"
    /\ LET r == try_rank(content, l1ranks, l2ranks, i, {}).res
       IN  res' = IF r.kind = "some"
                  THEN try_select(policy, content, l1ranks, l2ranks, select, r.val, TRUE)
                  ELSE r
    /\ op' = "select_of_rank"
    /\ arg' = i
    /\ pc' = "done"
    /\ UNCHANGED <<structure, l2read, wmvars, decvars, efvars, wmvars, decvars>>

Select0OfRank0(i) ==
    /\ pc = "built"
    /\ LET r == try_rank0(content, l1ranks, l2ranks, i, {})
       IN  res' = IF r.kind = "some"
                  THEN try_select(policy, content, l1ranks, l2ranks, select0, r.val, FALSE)
                  ELSE r
    /\ op' = "select0_of_rank0"
    /\ arg' = i
    /\ pc' = "done"
    /\ UNCHANGED <<structure, l2read, wmvars, decvars, efvars, wmvars, decvars>>

NextSelect ==
    \/ Build
    \/ \E k \in QueryRanks(Len(content)) : TrySelect(k)
    \/ \E k \in QueryRanks(Len(content)) : TrySelect0(k)
    \/ \E i \in QueryRanks(Len(content)) : SelectOfRank(i)
    \/ \E i \in QueryRanks(Len(content)) : Select0OfRank0(i)

SpecSelect == InitSelect /\ [][NextSelect]_vars

\* ---- Elias-Fano: builder, sequence, iterators and cursor

\* The Sequence that finish returned.
TheSequence ==
    [hi |-> content, l1 |-> l1ranks, l2 |-> l2ranks, sel |-> select,
     lo |-> lo, bits_per_lo |-> bits_per_lo, len |-> len]

\* The (final_len, universe) pairs every sequence of which is built, and pairs
\* whose hi array fills its words to the last bit (22, 86 and 22, 337, the
\* second with a lo array of two words) or has two words (33, 40).
SmallParams == {<<n, u>> : n \in 0..MaxLen, u \in 0..MaxUniverse}
LongParams == {<<22, 86>>, <<22, 337>>, <<33, 40>>}
Params == SmallParams \cup LongParams

\* The values pushed: every value up to the universe for the small pairs; for
\* the long ones the value universe - 2, after at most two values 5.
PushValues ==
    IF final_len <= MaxLen THEN 0..universe
    ELSE {universe - 2} \cup (IF current_len < 2 THEN {5} ELSE {})

\* The query values: below, inside and just above the universe, and far above it.
FarValues == {63, 64, 65}
QueryValues == {v \in 0..(universe + 1) : v <= MaxUniverse + 1 \/ v >= universe - 3} \cup FarValues

\* What an unchecked scan delivers when its result is undefined.
JunkHi == {0, 64 * Len(content) + 1}

InitEF ==
    /\ \E p \in Params :
        LET b == BuilderNew(p[1], p[2])
        IN  /\ final_len = p[1]
            /\ hi = b.hi
            /\ lo = b.lo
            /\ bits_per_lo = b.bits_per_lo
            /\ current_len = b.current_len
            /\ target_len = b.target_len
            /\ last_added = b.last_added
            /\ universe = b.universe
    /\ content = <<>>
    /\ policy = "CombinedSampling"
    /\ l1ranks = <<>>
    /\ l2ranks = <<>>
    /\ ones = 0
    /\ select = <<>>
    /\ select0 = <<>>
    /\ pc = "builder"
    /\ op = "none"
    /\ arg = 0
    /\ res = NoResult
    /\ l2read = {}
    /\ len = 0
    /\ pushed = <<>>
    /\ NoIterators
    /\ NoWaveletMatrix
    /\ NoDecoder

\* Builder::push without the assertion of the non-decreasing order.
Push_NoOrderCheck(value) ==
    /\ pc = "builder"
    /\ op' = "push"
    /\ arg' = value
    /\ IF value < universe /\ current_len < target_len
       THEN /\ hi' = set_bit(hi, (value \div Pow2(bits_per_lo)) + current_len)
            /\ lo' = init_successive_fragment(lo, current_len, value % Pow2(bits_per_lo), bits_per_lo)
            /\ current_len' = current_len + 1
            /\ last_added' = value
            /\ pushed' = Append(pushed, value)
            /\ res' = NoResult
            /\ pc' = "builder"
       ELSE /\ res' = Panic
            /\ pc' = "panicked"
            /\ UNCHANGED <<hi, lo, current_len, last_added, pushed>>
    /\ UNCHANGED <<structure, l2read, wmvars, decvars, final_len, bits_per_lo, target_len, universe, len, iterators>>

\* Mutant of Push: the hi bit is set at value >> bits_per_lo, the number of the
\* items pushed before is not added.
Push_BitWithoutLen(value) ==
    /\ pc = "builder"
    /\ op' = "push"
    /\ arg' = value
    /\ IF value < universe /\ current_len < target_len /\ last_added <= value
       THEN /\ hi' = set_bit(hi, value \div Pow2(bits_per_lo))
            /\ lo' = init_successive_fragment(lo, current_len, value % Pow2(bits_per_lo), bits_per_lo)
            /\ current_len' = current_len + 1
            /\ last_added' = value
            /\ pushed' = Append(pushed, value)
            /\ res' = NoResult
            /\ pc' = "builder"
       ELSE /\ res' = Panic
            /\ pc' = "panicked"
            /\ UNCHANGED <<hi, lo, current_len, last_added, pushed>>
    /\ UNCHANGED <<structure, l2read, wmvars, decvars, final_len, bits_per_lo, target_len, universe, len, iterators>>

\* Mutant of Push: last_added is written before the assertions are made.
Push_LastAddedFirst(value) ==
    /\ pc = "builder"
    /\ op' = "push"
    /\ arg' = value
    /\ last_added' = value
    /\ IF value < universe /\ current_len < target_len /\ last_added <= value
       THEN /\ hi' = set_bit(hi, (value \div Pow2(bits_per_lo)) + current_len)
            /\ lo' = init_successive_fragment(lo, current_len, value % Pow2(bits_per_lo), bits_per_lo)
            /\ current_len' = current_len + 1
            /\ pushed' = Append(pushed, value)
            /\ res' = NoResult
            /\ pc' = "builder"
       ELSE /\ res' = Panic
            /\ pc' = "panicked"
            /\ UNCHANGED <<hi, lo, current_len, pushed>>
    /\ UNCHANGED <<structure, l2read, wmvars, decvars, final_len, bits_per_lo, target_len, universe, len, iterators>>

\* Builder::push, push_unchecked included
Push(value) ==
    /\ pc = "builder"
    /\ op' = "push"
    /\ arg' = value
    /\ IF value < universe /\ current_len < target_len /\ last_added <= value
       THEN /\ hi' = set_bit(hi, (value \div Pow2(bits_per_lo)) + current_len)
            /\ lo' = init_successive_fragment(lo, current_len, value % Pow2(bits_per_lo), bits_per_lo)
            /\ current_len' = current_len + 1
            /\ last_added' = value
            /\ pushed' = Append(pushed, value)
            /\ res' = NoResult
            /\ pc' = "builder"
       ELSE /\ res' = Panic
            /\ pc' = "panicked"
            /\ UNCHANGED <<hi, lo, current_len, last_added, pushed>>
    /\ UNCHANGED <<structure, l2read, wmvars, decvars, final_len, bits_per_lo, target_len, universe, len, iterators>>

\* Builder::finish, finish_unchecked and the build of hi's rank/select included
Finish ==
    /\ pc = "builder"
    /\ op' = "finish"
    /\ arg' = 0
    /\ IF current_len = target_len
       THEN LET b == build(hi)
            IN  /\ content' = hi
                /\ l1ranks' = b.l1ranks
                /\ l2ranks' = b.l2ranks
                /\ ones' = b.total
                /\ select' = SelectSamples(b.l1ranks, b.l2ranks, b.total, TRUE)
                /\ len' = current_len
                /\ res' = NoResult
                /\ pc' = "sequence"
       ELSE /\ res' = Panic
            /\ pc' = "panicked"
            /\ UNCHANGED <<content, l1ranks, l2ranks, ones, select, len>>
    /\ UNCHANGED <<policy, select0, l2read, builder, iterators, wmvars, decvars>>

\* A query of the sequence that leaves it as it is.
Answer(name, a, r) ==
    /\ pc = "sequence"
    /\ op' = name
    /\ arg' = a
    /\ res' = r
    /\ pc' = "done"
    /\ UNCHANGED <<structure, l2read, wmvars, decvars, efvars, wmvars, decvars>>

\* Sequence::get
Get(index) == Answer("get", index, get(TheSequence, index))

\* Sequence::diff
Diff(index) == \E junk \in JunkHi : Answer("diff", index, diff(TheSequence, index, junk))

\* Sequence::geq_index
GeqIndex(value) == Answer("geq_index", value, geq_index(TheSequence, value))

\* Rank::try_rank of the Sequence
RankOfValue(value) == Answer("rank", value, geq_index(TheSequence, value))

\* Sequence::index_of
IndexOf(value) == Answer("index_of", value, index_of(TheSequence, value))

\* Sequence::iter
Iter ==
    /\ pc = "sequence"
    /\ begin' = begin_position(TheSequence)
    /\ end' = end_position(TheSequence)
    /\ op' = "iter"
    /\ pc' = "iter"
    /\ UNCHANGED <<structure, l2read, wmvars, decvars, builder, len, arg, res, position, prev_value,
                   yielded, yielded_back>>

\* Iterator::next
IterNext ==
    /\ pc = "iter"
    /\ op' = "next"
    /\ IF begin.lo # end.lo
       THEN \E junk \in JunkHi :
            /\ res' = Some(value_at_position_unchecked(TheSequence, begin))
            /\ yielded' = Append(yielded, value_at_position_unchecked(TheSequence, begin))
            /\ begin' = advance_position_unchecked(TheSequence, begin, junk)
       ELSE /\ res' = None
            /\ UNCHANGED <<yielded, begin>>
    /\ UNCHANGED <<structure, l2read, wmvars, decvars, builder, len, arg, pc, end, position, prev_value,
                   yielded_back>>

\* Mutant of IterNextBack: the back end stops at index 0, not at the front end.
IterNextBack_IgnoresBegin ==
    /\ pc = "iter"
    /\ op' = "next_back"
    /\ IF end.lo # 0
       THEN \E junk \in JunkHi :
            LET e == advance_position_back_unchecked(TheSequence, end, junk)
            IN  /\ end' = e
                /\ res' = Some(value_at_position_unchecked(TheSequence, e))
                /\ yielded_back' = Append(yielded_back, value_at_position_unchecked(TheSequence, e))
       ELSE /\ res' = None
            /\ UNCHANGED <<yielded_back, end>>
    /\ UNCHANGED <<structure, l2read, wmvars, decvars, builder, len, arg, pc, begin, position, prev_value,
                   yielded>>

\* Iterator::next_back
IterNextBack ==
    /\ pc = "iter"
    /\ op' = "next_back"
    /\ IF begin.lo # end.lo
       THEN \E junk \in JunkHi :
            LET e == advance_position_back_unchecked(TheSequence, end, junk)
            IN  /\ end' = e
                /\ res' = Some(value_at_position_unchecked(TheSequence, e))
                /\ yielded_back' = Append(yielded_back, value_at_position_unchecked(TheSequence, e))
       ELSE /\ res' = None
            /\ UNCHANGED <<yielded_back, end>>
    /\ UNCHANGED <<structure, l2read, wmvars, decvars, builder, len, arg, pc, begin, position, prev_value,
                   yielded>>

\* Sequence::diffs
Diffs ==
    /\ pc = "sequence"
    /\ position' = begin_position(TheSequence)
    /\ prev_value' = 0
    /\ op' = "diffs"
    /\ pc' = "diffs"
    /\ UNCHANGED <<structure, l2read, wmvars, decvars, builder, len, arg, res, begin, end, yielded, yielded_back>>

\* DiffIterator::next
DiffsNext ==
    /\ pc = "diffs"
    /\ op' = "next"
    /\ \E junk \in JunkHi :
        LET n == position_next(TheSequence, position, junk)
        IN  /\ position' = n.position
            /\ IF n.res.kind = "some"
               THEN /\ res' = Some(n.res.val - prev_value)
                    /\ prev_value' = n.res.val
                    /\ yielded' = Append(yielded, n.res.val - prev_value)
               ELSE /\ res' = n.res
                    /\ UNCHANGED <<prev_value, yielded>>
    /\ UNCHANGED <<structure, l2read, wmvars, decvars, builder, len, arg, pc, begin, end, yielded_back>>

\* Sequence::geq_cursor
GeqCursor(value) ==
    /\ pc = "sequence"
    /\ op' = "geq_cursor"
    /\ arg' = value
    /\ LET g == geq_position(TheSequence, value)
       IN  IF g.kind = "some"
           THEN /\ position' = g.val
                /\ res' = NoResult
                /\ pc' = "cursor"
           ELSE /\ res' = g
                /\ pc' = "done"
                /\ UNCHANGED position
    /\ UNCHANGED <<structure, l2read, wmvars, decvars, builder, len, begin, end, prev_value, yielded, yielded_back>>

\* Iterator::next of the Cursor; a cursor whose index has left the sequence is
\* followed one step and no further.
CursorNext ==
    /\ pc \in {"cursor", "walk"}
    /\ position.lo <= len + 1
    /\ op' = "next"
    /\ \E junk \in JunkHi :
        LET n == position_next(TheSequence, position, junk)
        IN  /\ position' = n.position
            /\ res' = n.res
            /\ yielded' = IF n.res.kind = "some" THEN Append(yielded, n.res.val) ELSE yielded
            /\ pc' = IF n.res = Panic THEN "done" ELSE pc
    /\ UNCHANGED <<structure, l2read, wmvars, decvars, builder, len, arg, begin, end, prev_value, yielded_back>>

\* Sequence::begin. pc "walk": a cursor made by begin() or end(), moved by
\* advance and next and asked for is_end, is_valid and value.
Begin ==
    /\ pc = "sequence"
    /\ op' = "begin"
    /\ position' = begin_position(TheSequence)
    /\ pc' = "walk"
    /\ UNCHANGED <<structure, l2read, wmvars, decvars, builder, len, arg, res, begin, end,
                   prev_value, yielded, yielded_back>>

\* Sequence::end
End ==
    /\ pc = "sequence"
    /\ op' = "end"
    /\ position' = end_position(TheSequence)
    /\ pc' = "walk"
    /\ UNCHANGED <<structure, l2read, wmvars, decvars, builder, len, arg, res, begin, end,
                   prev_value, yielded, yielded_back>>

\* A query of the cursor that leaves it where it is.
CursorAnswer(name, r) ==
    /\ pc = "walk"
    /\ op' = name
    /\ res' = r
    /\ pc' = "done"
    /\ UNCHANGED <<structure, l2read, wmvars, decvars, efvars, arg>>

\* Cursor::is_end
IsEnd == CursorAnswer("is_end", Bool(is_end(TheSequence, position)))

\* Cursor::is_valid
IsValid == CursorAnswer("is_valid", Bool(is_valid(TheSequence, position)))

\* Cursor::value
Value == CursorAnswer("value", value_at_position(TheSequence, position))

\* Cursor::advance
Advance ==
    /\ pc = "walk"
    /\ op' = "advance"
    /\ \E junk \in JunkHi :
        /\ res' = advance(TheSequence, position, junk).res
        /\ position' = advance(TheSequence, position, junk).position
    /\ UNCHANGED <<structure, l2read, wmvars, decvars, builder, len, arg, pc, begin, end,
                   prev_value, yielded, yielded_back>>

\* What the back scan delivers when its result is undefined: one of JunkHi, or
\* the last one bit of hi (the words read beyond the array were zero).
JunkBack == JunkHi \cup {IF OnesOf(content) = {} THEN 0 ELSE Max(OnesOf(content))}

\* A move back of a cursor whose index is inside the sequence or past its end:
\* a cursor of begin() or end(), moved or not, or the cursor geq_cursor returned.
CursorBack(name, junk) ==
    /\ pc = "walk" \/ (pc = "cursor" /\ op = "geq_cursor")
    /\ position.lo <= len
    /\ op' = name
    /\ LET back == IF position.lo = 0 THEN position
                   ELSE advance_position_back_unchecked(TheSequence, position, junk)
           r == IF name = "advance_back" THEN advance_back(TheSequence, position, back)
                ELSE next_back(TheSequence, position, back)
       IN  /\ res' = r.res
           /\ position' = r.position
    /\ pc' = "done"
    /\ UNCHANGED <<structure, l2read, wmvars, decvars, builder, len, arg, begin, end,
                   prev_value, yielded, yielded_back>>

\* Cursor::advance_back
AdvanceBack == \E junk \in JunkBack : CursorBack("advance_back", junk)

\* Cursor::next_back
CursorNextBack == \E junk \in JunkBack : CursorBack("next_back", junk)

NextEF ==
    \/ \E value \in PushValues : Push(value)
    \/ Finish
    \/ \E index \in 0..(len + 1) : Get(index)
    \/ \E index \in 0..(len + 1) : Diff(index)
    \/ \E value \in QueryValues : GeqIndex(value)
    \/ \E value \in QueryValues : RankOfValue(value)
    \/ \E value \in QueryValues : IndexOf(value)
    \/ Iter
    \/ IterNext
    \/ IterNextBack
    \/ Diffs
    \/ DiffsNext
    \/ \E value \in QueryValues : GeqCursor(value)
    \/ CursorNext
    \/ Begin
    \/ End
    \/ IsEnd
    \/ IsValid
    \/ Value
    \/ Advance
    \/ AdvanceBack
    \/ CursorNextBack

SpecEF == InitEF /\ [][NextEF]_vars


\* ---- wavelet matrix: construction and queries

\* All symbols of a width.
SymbolsOf(b) == 0..(Pow2(IF b <= 4 THEN b ELSE 3) - 1)

\* Every sequence of at most MaxSymbols symbols of every width up to MaxBits; the
\* sequences of tests::test_3_levels and tests::test_4_levels; and sequences of
\* 64 symbols (one full word per level) of widths 1, 2 and 3; and three
\* symbols of the full width 64.
ShortInputs ==
    UNION {{[symbols_ |-> t, bits_ |-> b] : t \in [1..n -> SymbolsOf(b)]} :
                n \in 0..MaxSymbols, b \in 1..MaxBits}
LongInputs ==
    {[symbols_ |-> <<6, 0>>, bits_ |-> 3], [symbols_ |-> <<11, 1, 1, 10, 13>>, bits_ |-> 4],
     [symbols_ |-> <<2, 5, 5>>, bits_ |-> 64]}
    \cup {[symbols_ |-> [i \in 1..64 |-> (3 * i + (i \div 8)) % Pow2(b)], bits_ |-> b] : b \in 1..3}
WmInputs == ShortInputs \cup LongInputs

\* The build profiles a query is made under: the two differ only when 1 << b
\* overflows.
ProfilesFor(b) == IF b < 64 THEN {"release"} ELSE Profiles

\* The indices and ranks asked of a matrix: the first ones, the last ones, the
\* length and beyond.
WmIndices == {i \in 0..(wm.len + 1) : i <= 2 \/ i >= wm.len - 1}
WmRanks == {0, 1, 2, 3, wm.len}

InitWM ==
    /\ \E in \in WmInputs :
        /\ symbols = in.symbols_
        /\ bits_per_value = in.bits_
    /\ wm = [levels |-> <<>>, len |-> 0]
    /\ content = <<>>
    /\ policy = "CombinedSampling"
    /\ l1ranks = <<>>
    /\ l2ranks = <<>>
    /\ ones = 0
    /\ select = <<>>
    /\ select0 = <<>>
    /\ pc = "symbols"
    /\ op = "none"
    /\ arg = <<>>
    /\ res = NoResult
    /\ l2read = {}
    /\ NoEliasFano
    /\ NoDecoder

\* WaveletMatrix::from_fn
FromFn ==
    /\ pc = "symbols"
    /\ wm' = from_fn(symbols, Len(symbols), bits_per_value)
    /\ pc' = "matrix"
    /\ UNCHANGED <<structure, l2read, efvars, decvars, symbols, bits_per_value, op, arg, res>>

\* A query of the matrix that leaves it as it is.
WmAnswer(name, a, r) ==
    /\ pc = "matrix"
    /\ op' = name
    /\ arg' = a
    /\ res' = r
    /\ pc' = "done"
    /\ UNCHANGED <<structure, l2read, efvars, wmvars, decvars>>

\* WaveletMatrix::get
WmGet(index) == WmAnswer("wm_get", <<index>>, wm_get(wm, index))

\* WaveletMatrix::try_count_in_range
WmTryCountInRange(start, end_, value, profile) ==
    WmAnswer("try_count_in_range", <<start, end_, value>>,
             try_count_in_range(wm, start, end_, value, profile))

\* WaveletMatrix::try_rank
WmTryRank(index, value, profile) ==
    WmAnswer("wm_try_rank", <<index, value>>, wm_try_rank(wm, index, value, profile))

\* WaveletMatrix::try_select
WmTrySelect(rank_, value) ==
    WmAnswer("wm_try_select", <<rank_, value>>, wm_try_select(wm, rank_, value))

\* try_select(r, value) for r the answer of try_rank(index, value), when it has one.
SelectOfAnswer(r, value) == IF r.kind = "some" THEN wm_try_select(wm, r.val, value) ELSE r

\* try_select(try_rank(index, value), value)
WmSelectOfRank(index, value, profile) ==
    WmAnswer("wm_select_of_rank", <<index, value>>,
             SelectOfAnswer(wm_try_rank(wm, index, value, profile), value))

NextWM ==
    \/ FromFn
    \/ \E index \in WmIndices : WmGet(index)
    \/ \E start \in WmIndices, end_ \in WmIndices, value \in SymbolsOf(bits_per_value),
            profile \in ProfilesFor(bits_per_value) :
            start <= end_ /\ WmTryCountInRange(start, end_, value, profile)
    \/ \E index \in WmIndices, value \in SymbolsOf(bits_per_value),
            profile \in ProfilesFor(bits_per_value) :
            WmTryRank(index, value, profile)
    \/ \E rank_ \in WmRanks, value \in SymbolsOf(bits_per_value) : WmTrySelect(rank_, value)
    \/ \E index \in WmIndices, value \in SymbolsOf(bits_per_value),
            profile \in ProfilesFor(bits_per_value) :
            WmSelectOfRank(index, value, profile)

SpecWM == InitWM /\ [][NextWM]_vars

\* ------------------------------------------------------------ Huffman decoder

\* DecodingResult
Value_(v) == [kind |-> "value", val |-> v]
Incomplete == [kind |-> "incomplete", val |-> 0]
Invalid == [kind |-> "invalid", val |-> 0]

\* Decoder::new(coding_degree), and the state reset leaves
DecoderNew(coding_degree) ==
    [shift |-> 0, first_leaf_nr |-> 0, level |-> 0, level_size |-> coding_degree]

\* coding.values.get(i).into(): values[i] is modelled by its index i
ValueAt(c, i) == IF i < c.values THEN Value_(i) ELSE Invalid

\* Decoder::consume: the result and the decoder it leaves; d.shift is
\* self.shift after `self.shift += fragment`.
ConsumeShifted(d, c, internal_nodes_count) ==
    IF d.shift < internal_nodes_count
    THEN [res |-> Incomplete,
          shift |-> c.degree * d.shift,
          first_leaf_nr |-> d.first_leaf_nr + d.level_size - internal_nodes_count,
          level |-> d.level + 1,
          level_size |-> c.degree * internal_nodes_count]
    ELSE [res |-> ValueAt(c, d.first_leaf_nr + d.shift - internal_nodes_count),
          shift |-> d.shift, first_leaf_nr |-> d.first_leaf_nr,
          level |-> d.level, level_size |-> d.level_size]

\* Decoder::consume
consume(d, c, fragment) ==
    IF d.level >= Len(c.internal_nodes_count)
    THEN [res |-> Panic, shift |-> d.shift + fragment, first_leaf_nr |-> d.first_leaf_nr,
          level |-> d.level, level_size |-> d.level_size]
    ELSE ConsumeShifted([d EXCEPT !.shift = d.shift + fragment], c,
                        c.internal_nodes_count[d.level + 1])

\* Decoder::consumed_fragments
consumed_fragments(d) == d.level

\* The codings the decoder walks: the number of internal nodes of each level
\* of a canonical tree and the number of values at its leaves. The last one is
\* a tree of degree 3 with a leaf that holds no value.
Codings ==
    {[degree |-> 2, internal_nodes_count |-> <<0>>, values |-> 2],
     [degree |-> 2, internal_nodes_count |-> <<1, 0>>, values |-> 3],
     [degree |-> 2, internal_nodes_count |-> <<2, 0>>, values |-> 4],
     [degree |-> 2, internal_nodes_count |-> <<1, 1, 0>>, values |-> 4],
     [degree |-> 3, internal_nodes_count |-> <<1, 0>>, values |-> 4]}

TheDecoder ==
    [shift |-> shift, first_leaf_nr |-> first_leaf_nr, level |-> level, level_size |-> level_size]

DecoderIs(d) ==
    /\ shift' = d.shift
    /\ first_leaf_nr' = d.first_leaf_nr
    /\ level' = d.level
    /\ level_size' = d.level_size

InitDecoder ==
    /\ \E c \in Codings :
        /\ coding = c
        /\ shift = DecoderNew(c.degree).shift
        /\ first_leaf_nr = DecoderNew(c.degree).first_leaf_nr
        /\ level = DecoderNew(c.degree).level
        /\ level_size = DecoderNew(c.degree).level_size
    /\ fragments = 0
    /\ content = <<>>
    /\ policy = "CombinedSampling"
    /\ l1ranks = <<>>
    /\ l2ranks = <<>>
    /\ ones = 0
    /\ select = <<>>
    /\ select0 = <<>>
    /\ pc = "decoder"
    /\ op = "none"
    /\ arg = <<>>
    /\ res = NoResult
    /\ l2read = {}
    /\ NoEliasFano
    /\ NoWaveletMatrix

\* Decoder::consume
Consume(fragment) ==
    /\ pc = "decoder"
    /\ fragments < MaxFragments
    /\ op' = "consume"
    /\ arg' = <<fragment>>
    /\ res' = consume(TheDecoder, coding, fragment).res
    /\ DecoderIs(consume(TheDecoder, coding, fragment))
    /\ fragments' = fragments + 1
    /\ UNCHANGED <<structure, l2read, efvars, wmvars, coding, pc>>

\* Decoder::reset
Reset ==
    /\ pc = "decoder"
    /\ op' = "reset"
    /\ arg' = <<coding.degree>>
    /\ res' = NoResult
    /\ DecoderIs(DecoderNew(coding.degree))
    /\ fragments' = 0
    /\ UNCHANGED <<structure, l2read, efvars, wmvars, coding, pc>>

\* Decoder::consumed_fragments
ConsumedFragments ==
    /\ pc = "decoder"
    /\ op' = "consumed_fragments"
    /\ arg' = <<>>
    /\ res' = Some(consumed_fragments(TheDecoder))
    /\ UNCHANGED <<structure, l2read, efvars, wmvars, decvars, pc>>

NextDecoder ==
    \/ \E fragment \in 0..(coding.degree - 1) : Consume(fragment)
    \/ Reset
    \/ ConsumedFragments

SpecDecoder == InitDecoder /\ [][NextDecoder]_vars

\* -------------------------------------------------------------- references

\* The number of bits of the array, and a bit-by-bit count of the ones (zeros)
\* among its bits [0, i).
NBits == 64 * Len(content)
NaiveRank(i) == Cardinality({j \in 0..(i - 1) : BitAt(content, j)})
NaiveRank0(i) == Cardinality({j \in 0..(i - 1) : ~BitAt(content, j)})

\* ------------------------------------------------------------------ claims

\* C1: for every index i < N (N = 64 x number of words), try_rank(i) is Some(r)
\* with r the bit-by-bit count of the ones among bits [0, i), whatever L2 block,
\* 512-bit sub-block and word i falls in.
C1_TryRankIsNaiveCount ==
    (pc = "done" /\ op = "try_rank" /\ arg < NBits) => res = Some(NaiveRank(arg))

\* A try_rank answered for an index in the second L2 block, in a sub-block other
\* than the first of its L2 block, past the first word of that sub-block.
C1_Witness ==
    /\ pc = "done" /\ op = "try_rank" /\ arg < NBits
    /\ arg >= 2048 + 64
    /\ res.kind = "some" /\ res.val > 0

\* The law of C2 at the index asked: the rank0 just answered and the rank of
\* the same flavour (checked or panicking) are both defined and add up to it.
C2_Law ==
    LET r == IF op = "rank0" THEN rank(content, l1ranks, l2ranks, arg)
             ELSE try_rank(content, l1ranks, l2ranks, arg, {}).res
    IN  /\ res.kind = "some"
        /\ r.kind = "some"
        /\ r.val + res.val = arg

\* C2 (as stated): for every i in the closed interval [0, N], rank(i) and rank0(i)
\* are both defined and rank(i) + rank0(i) = i.
C2_TotalityClosedInterval ==
    (pc = "done" /\ op \in {"rank0", "try_rank0"} /\ arg <= NBits) => C2_Law

\* C2 (amended): for every i in the half-open interval [0, N), rank(i) and
\* rank0(i) are both defined and rank(i) + rank0(i) = i; at i = N neither is
\* defined (try_rank and try_rank0 are None, rank and rank0 panic).
C2_TotalityHalfOpen ==
    /\ (pc = "done" /\ op \in {"rank0", "try_rank0"} /\ arg < NBits) => C2_Law
    /\ (pc = "done" /\ op \in {"try_rank", "try_rank0"} /\ arg = NBits) => res = None
    /\ (pc = "done" /\ op \in {"rank", "rank0"} /\ arg = NBits) => res = Panic

\* rank0 answered inside a non-empty array, at an index with ones and zeros before it.
C2_Witness ==
    /\ pc = "done" /\ op = "rank0" /\ arg < NBits
    /\ res.kind = "some" /\ res.val > 0 /\ res.val < arg

\* C3: try_rank(i) is None exactly when i >= N (so also try_rank(0) on the empty
\* array), and the call reads no L2 entry for such an i; the entries it reads for
\* i < N exist.
C3_NoneIffOutOfBound ==
    (pc = "done" /\ op = "try_rank") =>
        /\ (res = None) <=> (arg >= NBits)
        /\ res.kind \in {"some", "none"}
        /\ (arg >= NBits => l2read = {})
        /\ \A j \in l2read : j < Len(l2ranks)

\* try_rank(0) answered None on the empty bit array.
C3_Witness ==
    pc = "done" /\ op = "try_rank" /\ Len(content) = 0 /\ arg = 0 /\ res = None

\* ---- references for select

\* The first position at or after i whose bit is `one`; -1 if there is none.
NaiveFirst(i, one) ==
    LET ws == {w \in (i \div 64)..(Len(content) - 1) :
                  \E b \in Selected(content[w + 1], one) : w * 64 + b >= i}
    IN  IF ws = {} THEN -1
        ELSE LET w == CHOOSE x \in ws : \A y \in ws : x <= y
                 bs == {b \in Selected(content[w + 1], one) : w * 64 + b >= i}
             IN  w * 64 + (CHOOSE b \in bs : \A y \in bs : b <= y)

\* C4: for every k below the number of ones, select(k) is a position holding a
\* 1 with rank(select(k)) = k; for every i with a 1 at or after it,
\* select(rank(i)) is the position of the first 1 at or after i; and the same
\* for select0 and rank0 over the zeros.
C4_RankSelectInversion ==
    /\ (pc = "done" /\ op = "try_select" /\ arg < ones) =>
            /\ res.kind = "some"
            /\ res.val < NBits
            /\ BitAt(content, res.val)
            /\ try_rank(content, l1ranks, l2ranks, res.val, {}).res = Some(arg)
    /\ (pc = "done" /\ op = "try_select0" /\ arg < NBits - ones) =>
            /\ res.kind = "some"
            /\ res.val < NBits
            /\ ~BitAt(content, res.val)
            /\ try_rank0(content, l1ranks, l2ranks, res.val, {}) = Some(arg)
    /\ (pc = "done" /\ op = "select_of_rank" /\ NaiveFirst(arg, TRUE) >= 0) =>
            res = Some(NaiveFirst(arg, TRUE))
    /\ (pc = "done" /\ op = "select0_of_rank0" /\ NaiveFirst(arg, FALSE) >= 0) =>
            res = Some(NaiveFirst(arg, FALSE))

\* select(rank(i)) answered for an index i that holds a 0 and has a 1 after it,
\* in the second L2 block of the array.
C4_Witness ==
    /\ pc = "done" /\ op = "select_of_rank"
    /\ arg >= 2048 /\ arg < NBits /\ ~BitAt(content, arg)
    /\ res.kind = "some" /\ res.val > arg

\* C5: for every bit pattern and every k, the binary-search policy and the
\* combined-sampling policy give the same result for select and for select0,
\* None included.
C5_PolicyEquivalence ==
    /\ (pc = "done" /\ op = "try_select") =>
            /\ res = BinarySelect(content, l1ranks, l2ranks, arg, TRUE)
            /\ res = CombinedSelect(content, l1ranks, l2ranks,
                                    SelectSamples(l1ranks, l2ranks, ones, TRUE), arg, TRUE)
    /\ (pc = "done" /\ op = "try_select0") =>
            /\ res = BinarySelect(content, l1ranks, l2ranks, arg, FALSE)
            /\ res = CombinedSelect(content, l1ranks, l2ranks,
                                    SelectSamples(l1ranks, l2ranks, NBits - ones, FALSE), arg, FALSE)

\* A select answered by the combined-sampling policy from its second sample.
C5_Witness ==
    /\ pc = "done" /\ op = "try_select" /\ policy = "CombinedSampling"
    /\ arg >= ONES_PER_SELECT_ENTRY /\ Len(select) >= 2 /\ res.kind = "some"

\* ---- references for Elias-Fano: S is pushed, N its length

\* The number of stored values strictly less than v.
SmallerThan(v) == Cardinality({i \in 1..Len(pushed) : pushed[i] < v})

\* The stored values that are >= v, in order.
SuffixGeq(v) == SubSeq(pushed, SmallerThan(v) + 1, Len(pushed))

\* The indices (0-based) at which v is stored.
IndicesOf(v) == {i \in 0..(Len(pushed) - 1) : pushed[i + 1] = v}

\* S[0], S[1] - S[0], ..., S[N-1] - S[N-2]
DiffsOf == [i \in 1..Len(pushed) |-> IF i = 1 THEN pushed[1] ELSE pushed[i] - pushed[i - 1]]

IsPrefix(a, b) == Len(a) <= Len(b) /\ a = SubSeq(b, 1, Len(a))

Reversed(a) == [i \in 1..Len(a) |-> a[Len(a) + 1 - i]]

\* C6: for a built sequence S of length N, get(i) = Some(S[i]) for i < N and None
\* for i >= N; an iterator driven by next() alone yields S in order and then
\* None; driven by next_back() alone it yields S reversed and then None.
C6_RoundTrip ==
    /\ (pc = "done" /\ op = "get") =>
            res = IF arg < Len(pushed) THEN Some(pushed[arg + 1]) ELSE None
    /\ (pc = "iter" /\ yielded_back = <<>>) =>
            /\ IsPrefix(yielded, pushed)
            /\ (op = "next" /\ res = None) => yielded = pushed
    /\ (pc = "iter" /\ yielded = <<>>) =>
            /\ IsPrefix(yielded_back, Reversed(pushed))
            /\ (op = "next_back" /\ res = None) => yielded_back = Reversed(pushed)

\* An iterator run to its end by next() over a sequence of at least three items,
\* not all equal, that keeps lower bits.
C6_Witness ==
    /\ pc = "iter" /\ op = "next" /\ res = None /\ yielded_back = <<>>
    /\ Len(pushed) >= 3 /\ yielded = pushed
    /\ pushed[1] # pushed[3] /\ bits_per_lo >= 1

\* C7: for every built sequence and every query value v, geq_index(v) and rank(v)
\* are the number of stored values strictly less than v.
C7_GeqIndexCountsSmaller ==
    (pc = "done" /\ op \in {"geq_index", "rank"}) => res = Some(SmallerThan(arg))

\* geq_index(64) answers 0 on the sequence [0] built with Builder::new(1, 1).
C7_Witness ==
    /\ pc = "done" /\ op = "geq_index" /\ arg = 64
    /\ pushed = <<0>> /\ universe = 1 /\ res = Some(0)

\* C8: geq_cursor(v) returns a cursor at index |{i : S[i] < v}| (past the end
\* when v is greater than every stored value), and iterating it forward yields
\* exactly the stored values >= v, in order, and then None.
C8_GeqCursorYieldsSuffix ==
    /\ (op = "geq_cursor") => pc = "cursor" /\ position.lo = SmallerThan(arg)
    /\ (pc = "cursor") =>
            /\ IsPrefix(yielded, SuffixGeq(arg))
            /\ (op = "next" /\ res = None) => yielded = SuffixGeq(arg)
    /\ ~(pc = "done" /\ op = "next")

\* The cursor of geq_cursor(64) on the sequence [0] has yielded 64.
C8_Witness ==
    /\ pc = "cursor" /\ arg = 64 /\ pushed = <<0>> /\ universe = 1
    /\ yielded = <<64>>

\* C9: for every built sequence and every v in [0, U), index_of(v) is Some(i)
\* with i the smallest index at which v is stored, and None when v is not stored.
C9_IndexOfFirstOccurrence ==
    (pc = "done" /\ op = "index_of" /\ arg < universe) =>
        res = IF IndicesOf(arg) = {} THEN None ELSE Some(Min(IndicesOf(arg)))

\* index_of(84) panics on the sequence of 22 values 84 built with Builder::new(22, 86).
C9_Witness ==
    /\ pc = "done" /\ op = "index_of" /\ arg = 84 /\ universe = 86
    /\ Len(pushed) = 22 /\ pushed[1] = 84 /\ res = Panic

\* C10: diffs() yields S[0], S[1]-S[0], ..., S[N-1]-S[N-2] and then None;
\* diff(0) = Some(S[0]), diff(i) = Some(S[i] - S[i-1]) for 0 < i < N, diff(i) =
\* None for i >= N; and the backward scan of diff(i) ends on the hi bit of item i-1.
C10_Differences ==
    /\ (pc = "diffs") =>
            /\ IsPrefix(yielded, DiffsOf)
            /\ (op = "next" /\ res = None) => yielded = DiffsOf
    /\ (pc = "done" /\ op = "diff") =>
            /\ res = IF arg < Len(pushed) THEN Some(DiffsOf[arg + 1]) ELSE None
            /\ (0 < arg /\ arg < Len(pushed)) =>
                    \A junk \in JunkHi :
                        advance_position_back_unchecked(TheSequence,
                            position_at_unchecked(TheSequence, arg), junk).hi
                        = hi_select(TheSequence, arg - 1)

\* diff(i) answered a non-zero difference for an item i > 0 that follows a
\* different item, in a sequence that keeps lower bits.
C10_Witness ==
    /\ pc = "done" /\ op = "diff" /\ arg > 0 /\ arg < Len(pushed)
    /\ bits_per_lo >= 1 /\ res.kind = "some" /\ res.val > 0
    /\ res.val = pushed[arg + 1] - pushed[arg]

\* C11: Builder::push(v) is accepted exactly when last_added <= v < universe and
\* current_len < target_len; an accepted push sets hi bit (v >> l) + current_len
\* (and no other), stores the low l bits of v as lo field number current_len,
\* adds one to current_len and makes last_added = v; any other push panics.
C11_PushContract ==
    [][(pc = "builder" /\ op' = "push") =>
            LET v == arg'
                l == bits_per_lo
            IN  IF last_added <= v /\ v < universe /\ current_len < target_len
                THEN /\ res' = NoResult
                     /\ pc' = "builder"
                     /\ OnesOf(hi') = OnesOf(hi) \cup {(v \div Pow2(l)) + current_len}
                     /\ get_fragment(lo', current_len, l) = v % Pow2(l)
                     /\ \A i \in 0..(current_len - 1) :
                            get_fragment(lo', i, l) = get_fragment(lo, i, l)
                     /\ current_len' = current_len + 1
                     /\ last_added' = v
                ELSE /\ res' = Panic
                     /\ pc' = "panicked"]_vars

\* A third push accepted by a builder that keeps lower bits, of a value with a
\* non-zero lower part.
C11_Witness ==
    /\ pc = "builder" /\ op = "push" /\ res = NoResult
    /\ current_len = 3 /\ bits_per_lo >= 1 /\ last_added % 2 = 1

\* C12: for every final_len and universe, finish panics when fewer than final_len
\* items have been pushed, and otherwise returns a Sequence of len() = final_len.
C12_FinishContract ==
    (op = "finish") =>
        IF Len(pushed) = final_len
        THEN pc = "sequence" /\ len = final_len
        ELSE pc = "panicked" /\ res = Panic

\* finish returned an empty Sequence from Builder::new(3, 0) with nothing pushed.
C12_Witness ==
    /\ op = "finish" /\ pc = "sequence"
    /\ final_len = 3 /\ universe = 0 /\ pushed = <<>> /\ len = 0


\* C17: advance on a cursor with index < N moves it to index + 1 (hi on the
\* next set bit of hi, or past the end when index + 1 = N) and returns true;
\* on a cursor past the end (index = N) it returns false and leaves the cursor
\* as it is.
C17_AdvanceContract ==
    [][(pc = "walk" /\ op' = "advance") =>
        IF position.lo < len
        THEN /\ res' = Bool(TRUE)
             /\ position'.lo = position.lo + 1
             /\ (position.lo + 1 < len) =>
                    position'.hi = find_bit_one(content, position.hi + 1).val
        ELSE /\ res' = Bool(FALSE)
             /\ position' = position]_vars

C17_Witness ==
    /\ pc = "walk"
    /\ op = "advance"
    /\ pushed = <<0>>
    /\ len = 1
    /\ position.lo = 0
    /\ res = Bool(FALSE)

\* C18: is_end() is true exactly on a cursor past the end (index = N),
\* is_valid() exactly on a cursor with index < N, so is_valid() = !is_end() on
\* every cursor, and value() is Some exactly when is_valid().
C18_EndAndValid ==
    /\ (op = "is_end") => res = Bool(position.lo = len)
    /\ (op = "is_valid") => res = Bool(position.lo < len)
    /\ (op = "value") => ((res.kind = "some") <=> is_valid(TheSequence, position))
    /\ (pc = "walk") => is_valid(TheSequence, position) = ~is_end(TheSequence, position)

C18_Witness ==
    /\ op = "is_end"
    /\ pushed = <<0>>
    /\ len = 1
    /\ position.lo = 0
    /\ res = Bool(TRUE)

\* ------------------------------------------------------- directory layout

\* The number held by bits [from, from + width) of a word.
Field(w, from, width) == ToNat(Shr(w, from) \cap n_lowest_bits(width))

\* The bit-by-bit rank at the start of sub-block s (0..3) of L2 block k
\* (1-based), the number of ones of the array when the sub-block starts beyond it.
RankAtSubBlock(k, s) == NaiveRank(Min({2048 * (k - 1) + 512 * s, NBits}))

\* The words of the array from the start of L2 block k on.
WordsFrom(k) == Len(content) - U64_PER_L2_ENTRY * (k - 1)

\* The rank at the start of the L1 block that holds L2 block k.
L1RankOf(k) == l1ranks[((U64_PER_L2_ENTRY * (k - 1)) \div U64_PER_L1_ENTRY) + 1]

Delta(w, s) == Field(w, 65 - 11 * s, IF s = 1 THEN 10 ELSE 11)

C22_TailFill ==
    (pc = "built" /\ Len(l2ranks) > 0 /\ WordsFrom(Len(l2ranks)) <= 3 * U64_PER_L2_RECORDS) =>
        /\ Low32(l2ranks[Len(l2ranks)])
                = RankAtSubBlock(Len(l2ranks), 0) - L1RankOf(Len(l2ranks))
        /\ \A j \in 0..2 :
            Delta(l2ranks[Len(l2ranks)], j + 1) =
                IF WordsFrom(Len(l2ranks)) > U64_PER_L2_RECORDS * j
                THEN RankAtSubBlock(Len(l2ranks), j + 1) - RankAtSubBlock(Len(l2ranks), 0)
                ELSE Pow2(IF j = 0 THEN 10 ELSE 11) - 1

\* The reading of C22 in which the field r(s) - r0 belongs to sub-block s
\* (the sub-block whose start it ranks): the field is all ones as soon as
\* sub-block s starts beyond the end of the array.
C22_TailFillBySubBlock ==
    (pc = "built" /\ Len(l2ranks) > 0 /\ WordsFrom(Len(l2ranks)) <= 3 * U64_PER_L2_RECORDS) =>
        \A s \in 1..3 :
            Delta(l2ranks[Len(l2ranks)], s) =
                IF WordsFrom(Len(l2ranks)) > U64_PER_L2_RECORDS * s
                THEN RankAtSubBlock(Len(l2ranks), s) - RankAtSubBlock(Len(l2ranks), 0)
                ELSE Pow2(IF s = 1 THEN 10 ELSE 11) - 1

\* An array of 33 words: its last L2 block holds one word, the field of the
\* first sub-block holds that word's popcount and the two others are filled.
C22_Witness ==
    /\ pc = "built"
    /\ Len(content) = 33
    /\ Len(l2ranks) = 2
    /\ Delta(l2ranks[2], 1) = Cardinality(content[33])
    /\ Delta(l2ranks[2], 1) \in 1..63
    /\ Delta(l2ranks[2], 2) = 2047
    /\ Delta(l2ranks[2], 3) = 2047
    /\ Low32(l2ranks[2]) > 0

\* ------------------------------------------------------- wavelet matrix claims

\* C13: the matrix built from the symbols T of length N answers get(i) with
\* Some(T[i]) for every i < N and with None for every i >= N.
C13_GetReturnsSymbol ==
    (op = "wm_get") =>
        res = IF arg[1] < Len(symbols) THEN Some(symbols[arg[1] + 1]) ELSE None

C13_Witness ==
    /\ op = "wm_get"
    /\ Len(symbols) = 64
    /\ bits_per_value = 3
    /\ arg[1] = 1
    /\ res = Some(symbols[2])
    /\ res.val = 6

\* The number of j in [start, end_) with T[j] = value.
Occurrences(T, start, end_, value) ==
    Cardinality({j \in (start + 1)..end_ : j <= Len(T) /\ T[j] = value})

\* C14: try_count_in_range(a..e, v) is Some(number of j in [a, e) with T[j] = v)
\* for every a <= e <= N, try_rank(i, v) is Some(number of v among the first i
\* symbols) for every i <= N, and both are None when e or i exceeds N.
C14_CountAndRank ==
    /\ (op = "try_count_in_range") =>
            res = IF arg[2] <= Len(symbols)
                  THEN Some(Occurrences(symbols, arg[1], arg[2], arg[3])) ELSE None
    /\ (op = "wm_try_rank") =>
            res = IF arg[1] <= Len(symbols)
                  THEN Some(Occurrences(symbols, 0, arg[1], arg[2])) ELSE None

C14_Witness ==
    /\ op = "wm_try_rank"
    /\ symbols = <<>>
    /\ bits_per_value = 2
    /\ arg = <<0, 0>>
    /\ res = Panic

\* The position (0-based) of occurrence number k (0-based) of value in T.
KthOccurrence(T, k, value) ==
    CHOOSE p \in 0..(Len(T) - 1) : T[p + 1] = value /\ Occurrences(T, 0, p, value) = k

\* C15: for k smaller than the number of occurrences of v, try_select(k, v) is
\* Some(p), p the position of occurrence k of v (so get(p) = v and
\* try_rank(p, v) = k); and when try_select(try_rank(i, v), v) has an answer,
\* the answer is at least i.
C15_SelectInverse ==
    (op = "wm_try_select" /\ arg[1] < Occurrences(symbols, 0, Len(symbols), arg[2])) =>
        /\ res = Some(KthOccurrence(symbols, arg[1], arg[2]))
        /\ wm_get(wm, res.val) = Some(arg[2])
        /\ \A profile \in Profiles : wm_try_rank(wm, res.val, arg[2], profile) = Some(arg[1])

C15_SelectOfRankNotBefore ==
    (op = "wm_select_of_rank" /\ res.kind = "some") => res.val >= arg[1]

C15_RankSelectInversion == C15_SelectInverse /\ C15_SelectOfRankNotBefore

\* The symbols 2, 5, 5 of width 64: try_select(1, 5) is Some(2), and
\* try_rank(2, 5) is not Some(1): a panic with overflow checks, Some(0) without.
C15_Witness ==
    /\ op = "wm_try_select"
    /\ symbols = <<2, 5, 5>>
    /\ bits_per_value = 64
    /\ arg = <<1, 5>>
    /\ res = Some(2)
    /\ wm_get(wm, 2) = Some(5)
    /\ wm_try_rank(wm, 2, 5, "debug") = Panic
    /\ wm_try_rank(wm, 2, 5, "release") = Some(0)

\* C16: try_select(k, v) never panics; it is None whenever k is not below the
\* number of occurrences of v; and an answer Some(p) has p < N and T[p] = v.
C16_SelectOutOfBound ==
    (op = "wm_try_select") =>
        /\ res.kind \in {"some", "none"}
        /\ (arg[1] >= Occurrences(symbols, 0, Len(symbols), arg[2])) => res = None
        /\ (res.kind = "some") => res.val < Len(symbols) /\ symbols[res.val + 1] = arg[2]

C16_Witness ==
    /\ op = "wm_try_select"
    /\ symbols = <<>>
    /\ bits_per_value = 2
    /\ arg = <<0, 0>>
    /\ res = Panic

\* ------------------------------------------------------------- decoder claims

\* C19: consumed_fragments() is the number of calls of consume since the
\* construction or the last reset, whatever those calls returned.
C19_ConsumedFragments ==
    (op = "consumed_fragments") => res = Some(fragments)

C19_Witness ==
    /\ op = "consumed_fragments"
    /\ coding = [degree |-> 2, internal_nodes_count |-> <<1, 0>>, values |-> 3]
    /\ fragments = 1
    /\ shift = 1
    /\ level = 0
    /\ res = Some(0)
\* ------------------------------------------------ Elias-Fano builder claims

\* The position of the i-th (from 0) one bit of an array.
NthOne(ws, i) == CHOOSE x \in OnesOf(ws) : Cardinality({y \in OnesOf(ws) : y < x}) = i

\* C23: after every accepted push (n = current_len items v_0 <= ... <= v_(n-1)
\* accepted so far), the bit just set lies inside the bits allocated for hi and
\* was zero before, hi holds exactly n one bits, current_len <= target_len, and
\* for every i < n the position of the i-th one bit minus i is v_i >> l, so
\* that v_i = (position of the i-th one bit - i) * 2^l + lo field i.
C23_BuilderInvariant ==
    [][(pc = "builder" /\ op' = "push" /\ pc' = "builder") =>
            LET bit == (arg' \div Pow2(bits_per_lo)) + current_len
                l == bits_per_lo'
            IN  /\ bit < final_len + ((universe - 1) \div Pow2(bits_per_lo))
                /\ InWords(hi, bit)
                /\ ~BitAt(hi, bit)
                /\ BitAt(hi', bit)
                /\ Len(pushed') = current_len'
                /\ Cardinality(OnesOf(hi')) = current_len'
                /\ current_len' <= target_len'
                /\ \A i \in 0..(current_len' - 1) :
                    /\ i = 0 \/ pushed'[i] <= pushed'[i + 1]
                    /\ NthOne(hi', i) - i = pushed'[i + 1] \div Pow2(l)
                    /\ pushed'[i + 1] = (NthOne(hi', i) - i) * Pow2(l) + get_fragment(lo', i, l)]_vars

\* Builder::new(3, 7) (l = 1) after the pushes of 1, 4 and 6: hi has the bits
\* 0 + 0, 2 + 1 and 3 + 2, lo the fields 1, 0, 0.
C23_Witness ==
    /\ pc = "builder" /\ op = "push"
    /\ final_len = 3 /\ universe = 7 /\ bits_per_lo = 1
    /\ pushed = <<1, 4, 6>>
    /\ OnesOf(hi) = {0, 3, 5}
    /\ get_fragment(lo, 0, 1) = 1 /\ get_fragment(lo, 1, 1) = 0 /\ get_fragment(lo, 2, 1) = 0

\* C24: a push that is rejected (value >= universe, value < last_added, or
\* current_len = target_len) leaves hi, lo, current_len, last_added, target_len
\* and universe as they were.
C24_RejectedPushChangesNothing ==
    [][(pc = "builder" /\ op' = "push"
            /\ (arg' >= universe \/ arg' < last_added \/ current_len = target_len)) =>
            /\ res' = Panic
            /\ hi' = hi
            /\ lo' = lo
            /\ current_len' = current_len
            /\ last_added' = last_added
            /\ target_len' = target_len
            /\ universe' = universe
            /\ bits_per_lo' = bits_per_lo]_vars

\* Builder::new(3, 7) after the pushes of 1 and 4 rejected the push of 3: the
\* two bits and fields of 1 and 4 are what the builder holds.
C24_Witness ==
    /\ pc = "panicked" /\ op = "push" /\ res = Panic
    /\ final_len = 3 /\ universe = 7
    /\ arg = 3 /\ last_added = 4 /\ current_len = 2
    /\ pushed = <<1, 4>>
    /\ OnesOf(hi) = {0, 3}
    /\ get_fragment(lo, 0, 1) = 1 /\ get_fragment(lo, 1, 1) = 0

\* ----------------------------------------------- Elias-Fano iterator claims

\* C25: in every interleaving of next() and next_back() on one iterator over a
\* sequence S of N items, while fewer than N items have been returned next()
\* returns the next item from the front and next_back() the next item from
\* the back (so the items returned by next() are S[0], S[1], ..., those
\* returned by next_back() are S[N-1], S[N-2], ..., and no item is returned
\* twice); once N items have been returned every call returns None and leaves
\* the iterator as it is.
C25_DoubleEndedFused ==
    [][(pc = "iter" /\ op' \in {"next", "next_back"}) =>
            IF Len(yielded) + Len(yielded_back) < Len(pushed)
            THEN /\ op' = "next" =>
                        /\ res' = Some(pushed[Len(yielded) + 1])
                        /\ yielded' = Append(yielded, res'.val)
                        /\ yielded_back' = yielded_back
                 /\ op' = "next_back" =>
                        /\ res' = Some(pushed[Len(pushed) - Len(yielded_back)])
                        /\ yielded_back' = Append(yielded_back, res'.val)
                        /\ yielded' = yielded
                 /\ IsPrefix(yielded', pushed)
                 /\ IsPrefix(yielded_back', Reversed(pushed))
            ELSE /\ res' = None
                 /\ yielded' = yielded /\ yielded_back' = yielded_back
                 /\ begin' = begin /\ end' = end]_vars

\* Over the sequence 1, 4, 6: next(), next_back(), next_back(), then next()
\* returned None.
C25_Witness ==
    /\ pc = "iter" /\ op = "next" /\ res = None
    /\ pushed = <<1, 4, 6>>
    /\ yielded = <<1>> /\ yielded_back = <<6, 4>>
    /\ begin.lo = 1 /\ end.lo = 1

\* C26: advance_back and next_back on a cursor at index j > 0, past-the-end
\* cursors included, read hi only inside its bit array and move the cursor to
\* index j - 1, the position of the (j-1)-th one bit (next_back returns
\* Some(S[j-1]), advance_back true); at index 0 advance_back returns false,
\* next_back None, and the cursor stays.
C26_MoveBack ==
    [][(pc \in {"cursor", "walk"} /\ op' \in {"advance_back", "next_back"}) =>
            IF position.lo > 0
            THEN /\ InWords(content, position.hi - 1)
                 /\ position'.lo = position.lo - 1
                 /\ position'.hi = NthOne(content, position.lo - 1)
                 /\ res' = IF op' = "next_back" THEN Some(pushed[position.lo])
                           ELSE Bool(TRUE)
            ELSE /\ res' = (IF op' = "next_back" THEN None ELSE Bool(FALSE))
                 /\ position' = position]_vars

\* The cursor of begin() over the sequence 1, 4 of Builder::new(2, 7), run to
\* exhaustion by next() (its hi is then 2 * 64, beyond the one word of hi),
\* after next_back(): the scan from bit 127 delivered a position beyond hi.
C26_Witness ==
    /\ pc = "done" /\ op = "next_back"
    /\ final_len = 2 /\ universe = 7 /\ pushed = <<1, 4>>
    /\ yielded = <<1, 4>>
    /\ Len(content) = 1
    /\ position = [lo |-> 1, hi |-> 65]
    /\ res # Some(4)

\* ------------------------------------------------- wavelet level builder claims

\* The first k of the values, those whose bit c is 0 (one = FALSE) or 1.
WithBit(values, c, k, one) == SelectSeq(SubSeq(values, 1, k), LAMBDA v : BitOf(v, c) = one)

\* The c lowest bits of a value below 2^31.
LowBits(v, c) == IF c >= 31 THEN v ELSE v % Pow2(c)

\* The builder lb that extracts bit c (w = c lower bits), after the first k of
\* the N values, z of which have a 0 in bit c: the cursors, and the fields
\* written so far in the two regions.
TwoCursors(lb, values, c, k, z) ==
    LET zeros == WithBit(values, c, k, FALSE)
        ones_ == WithBit(values, c, k, TRUE)
    IN  /\ lb.upper_index = k
        /\ lb.lower_zero_index = Len(zeros) * c
        /\ lb.lower_zero_index <= z * c
        /\ lb.lower_one_index = (z + Len(ones_)) * c
        /\ lb.lower_one_index <= Len(values) * c
        /\ \A j \in 0..(Len(values) - 1) :
            get_bits(lb.lower_bits, j * c, c) =
                IF j < Len(zeros) THEN LowBits(zeros[j + 1], c)
                ELSE IF j >= z /\ j < z + Len(ones_) THEN LowBits(ones_[j - z + 1], c)
                ELSE 0
        /\ \A j \in 0..(Len(values) - 1) :
            BitAt(lb.upper_bit, j) = (j < k /\ BitOf(values[j + 1], c))
        /\ (k = Len(values)) =>
            /\ lb.lower_zero_index = z * c
            /\ lb.lower_one_index = Len(values) * c

\* C27: for every level builder from_fn fills (bit c = b-1 .. 1, w = c; the
\* three builders of the highest bits when the matrix has more levels), and
\* after every number k of its N pushes, z of the N values having a 0 in bit c:
\* the zero cursor is w times the number of zero-values pushed and at most z*w,
\* the one cursor is z*w plus w times the number of one-values pushed and at
\* most N*w, the zero-values fill the fields from 0 and the one-values the
\* fields from z in the order pushed, every other field is still zero, and
\* after the N pushes the zero cursor is z*w and the one cursor N*w.
C27_TwoCursorWrite ==
    (pc = "matrix" /\ bits_per_value >= 2) =>
        \A c \in {d \in 1..(bits_per_value - 1) : d >= bits_per_value - 3} :
            \A k \in 0..Len(symbols) :
                TwoCursors(BuilderAfter(symbols, bits_per_value, c, k),
                           BuilderInput(symbols, bits_per_value, c), c, k,
                           Len(WithBit(BuilderInput(symbols, bits_per_value, c), c,
                                       Len(symbols), FALSE)))

\* The 64 symbols of width 3 after from_fn: the builder of bit 1 was filled
\* with values of which some but not all have a 0, and its cursors ended at
\* z*w and N*w.
C27_Witness ==
    /\ pc = "matrix" /\ bits_per_value = 3 /\ Len(symbols) = 64
    /\ BuilderAfter(symbols, 3, 1, 64).lower_zero_index = NumberOfZeros(symbols, 1)
    /\ NumberOfZeros(symbols, 1) \in 1..63
    /\ BuilderAfter(symbols, 3, 1, 64).lower_one_index = 64
    /\ Len(wm.levels) = 3
    /\ wm.levels[3].content = BuilderAfter(symbols, 3, 1, 64).lower_bits

\* C28: for every matrix from_fn builds, of every width, the number_of_zeros
\* recorded for each level is the number of 0 bits among the N bits of the
\* level's bit array.
C28_NumberOfZeros ==
    (pc = "matrix") =>
        \A t \in 1..Len(wm.levels) :
            wm.levels[t].number_of_zeros =
                Cardinality({i \in 0..(wm.len - 1) : ~BitAt(wm.levels[t].content, i)})

\* from_fn of the one symbol 1 of width 1: the level holds the bit 1 and no
\* zero, and records one zero.
C28_Witness ==
    /\ pc = "matrix" /\ bits_per_value = 1 /\ symbols = <<1>>
    /\ Len(wm.levels) = 1
    /\ wm.levels[1].content = <<{0}>>
    /\ wm.levels[1].number_of_zeros = 1

\* ------------------------------------------------------ wavelet matrix masks

\* try_count_in_range: the mask it holds at level t (0 = the top), after
\* t + 1 shifts of 1 << bits_per_value.
CountMaskAt(b, t, profile) == Shr(ShlOne(b, profile).word, t + 1)

\* sel: the mask 1 << (levels.len() - depth - 1) of level t = depth.
SelMaskAt(b, t) == Shl(FromNat(1), b - t - 1)

\* C29: for every width b of a matrix built, 1 << b does not overflow, and at
\* level t = 0..b-1 try_count_in_range and try_select test exactly bit b-1-t
\* of the value; try_count_in_range and try_rank do not panic on a range
\* inside a matrix whose length is not a multiple of 64.
C29_LevelMasks ==
    /\ (pc \in {"matrix", "done"}) =>
            \A profile \in Profiles :
                /\ ShlOne(Len(wm.levels), profile).kind = "some"
                /\ \A t \in 0..(Len(wm.levels) - 1) :
                    /\ CountMaskAt(Len(wm.levels), t, profile) = {Len(wm.levels) - 1 - t}
                    /\ SelMaskAt(Len(wm.levels), t) = {Len(wm.levels) - 1 - t}
    /\ (op \in {"try_count_in_range", "wm_try_rank"} /\ wm.len % 64 # 0) => res # Panic

\* The symbols 2, 5, 5 of width 64: try_count_in_range(0..3, 5) panicked on
\* 1 << 64 (overflow checks on).
C29_Witness ==
    /\ op = "try_count_in_range"
    /\ symbols = <<2, 5, 5>>
    /\ bits_per_value = 64
    /\ Len(wm.levels) = 64
    /\ arg = <<0, 3, 5>>
    /\ res = Panic
    /\ try_count_in_range(wm, 0, 3, 5, "release") = Some(0)
    /\ CountMaskAt(64, 0, "release") = {}

\* ------------------------------------------------------- the two rank paths

\* C30: for every index i < N the panicking rank(i) is try_rank(i).unwrap()
\* and rank0(i) is try_rank0(i).unwrap(); for every i >= N rank(i) panics.
C30_RankPathsAgree ==
    /\ (pc = "done" /\ op \in {"rank", "try_rank"} /\ arg < NBits) =>
            /\ res.kind = "some"
            /\ rank(content, l1ranks, l2ranks, arg) = res
            /\ \A junk \in JunkWords : try_rank(content, l1ranks, l2ranks, arg, junk).res = res
    /\ (pc = "done" /\ op \in {"rank0", "try_rank0"} /\ arg < NBits) =>
            /\ res.kind = "some"
            /\ rank0(content, l1ranks, l2ranks, arg) = res
            /\ \A junk \in JunkWords : try_rank0(content, l1ranks, l2ranks, arg, junk) = res
    /\ (pc = "done" /\ op = "rank" /\ arg >= NBits) => res = Panic

\* rank answered at an index of the second L2 block, inside a word, with ones
\* before it in that word.
C30_Witness ==
    /\ pc = "done" /\ op = "rank"
    /\ arg > 2048 /\ arg < NBits /\ arg % 64 # 0
    /\ res.kind = "some" /\ res.val > 0
    /\ content[(arg \div 64) + 1] \cap n_lowest_bits(arg % 64) # {}
    /\ try_rank(content, l1ranks, l2ranks, arg, {}).res = res

====
